---- MODULE Spec2Model ----
(***************************************************************************)
(* Lead-scraping engine of backend/task1: driver resolution, login,        *)
(* paginated search, per-profile extraction and the _scrape job that       *)
(* drives them (linkedin_scraper.py), with the REST caller of app.py.      *)
(***************************************************************************)
EXTENDS Integers, Sequences, FiniteSets, TLC

(***************************************************************************)
(* Bounds of the model.                                                    *)
(***************************************************************************)
\* largest profile_count (limit) a request asks for
MaxLimit == 2
\* largest number of anchors on one rendered search page
MaxAnchors == 2
\* largest number of files present in the modelled part of the file system
MaxFiles == 2
\* largest limit given to _search_profiles when it is run on its own
MaxSearchLimit == 3

(***************************************************************************)
(* Generic helpers on sequences.                                           *)
(***************************************************************************)
Range(s) == {s[i] : i \in 1..Len(s)}

Min(a, b) == IF a < b THEN a ELSE b

\* s[:n] of Python for n > 0
Take(s, n) == SubSeq(s, 1, Min(n, Len(s)))

IsPrefix(p, s) == Len(p) <= Len(s) /\ SubSeq(s, 1, Len(p)) = p

IsProperPrefix(p, s) == Len(p) < Len(s) /\ SubSeq(s, 1, Len(p)) = p

\* the sequences over S of length at most n
SeqUpTo(S, n) == UNION {[1..k -> S] : k \in 0..n}

(***************************************************************************)
(* _get_chrome_service: file paths are (directory, stem, ".exe" or not).   *)
(***************************************************************************)
FilePath(dir, stem, exe) == [dir |-> dir, stem |-> stem, exe |-> exe]

DriverStem == "chromedriver"
NoticesStem == "THIRD_PARTY_NOTICES.chromedriver"

\* directories of the webdriver-manager cache and of the well-known places
CacheDir == <<"wdm">>
BaseDir == <<"wdm", "chromedriver-linux64">>
SubDir == <<"wdm", "chromedriver-linux64", "sub">>
Win64Dir == <<"wdm", "win64">>
Win32Dir == <<"wdm", "win32">>
HomeWin64Dir == <<"home", ".wdm", "drivers", "chromedriver", "win64">>
HomeWin32Dir == <<"home", ".wdm", "drivers", "chromedriver", "win32">>
ProgramFilesDir == <<"C:", "Program Files", "Google", "Chrome", "Application">>
ProgramFilesX86Dir == <<"C:", "Program Files (x86)", "Google", "Chrome", "Application">>
WorkingDir == <<>>

\* Service() built without an executable path
AutoDetect == FilePath(<<"auto">>, "", FALSE)
\* ChromeDriverManager().install() raising
InstallRaises == FilePath(<<"raise">>, "", FALSE)

\* os.path.dirname
Dirname(dir) == IF Len(dir) = 0 THEN dir ELSE SubSeq(dir, 1, Len(dir) - 1)

\* driver_path + '.exe'
AddExe(p) == FilePath(p.dir, p.stem, TRUE)

\* not driver_path.endswith('.exe') or 'THIRD_PARTY' in driver_path or 'NOTICES' in driver_path
LooksWrong(p) == ~p.exe \/ p.stem = NoticesStem

\* "win64" in base_dir or "win32" in base_dir
InWinDir(dir) == \E i \in 1..Len(dir) : dir[i] \in {"win64", "win32"}

\* possible_paths, normalised by os.path.normpath
PossiblePaths(base) ==
    LET parent == Dirname(base)
        common == << FilePath(base, DriverStem, TRUE), FilePath(base, DriverStem, FALSE),
                     FilePath(parent, DriverStem, TRUE), FilePath(parent, DriverStem, FALSE) >>
    IN  IF InWinDir(base)
        THEN common \o << FilePath(base, DriverStem, TRUE), FilePath(base, DriverStem, FALSE) >>
        ELSE common \o << FilePath(parent \o <<"win64">>, DriverStem, TRUE),
                          FilePath(parent \o <<"win32">>, DriverStem, TRUE),
                          FilePath(parent \o <<"win64">>, DriverStem, FALSE),
                          FilePath(parent \o <<"win32">>, DriverStem, FALSE) >>

\* the test of the "for path in possible_paths" loop
AcceptPossible(p, fs, windows) == p \in fs /\ ((windows /\ p.exe) \/ ~windows)

\* found_path after the loop over possible_paths
FoundInPossible(base, fs, windows) ==
    LET paths == PossiblePaths(base)
        hits == {i \in 1..Len(paths) : AcceptPossible(paths[i], fs, windows)}
    IN  IF hits = {} THEN {}
        ELSE {paths[CHOOSE i \in hits : \A k \in hits : i <= k]}

\* files that os.walk(base_dir) accepts
WalkMatches(base, fs, windows) ==
    {f \in fs : /\ IsPrefix(base, f.dir)
                /\ f.stem = DriverStem
                /\ (f.exe \/ ~windows)}

\* os.walk is top-down and lists the entries of one directory in no fixed
\* order: a match can come first unless another one lies in a directory above
WalkFirst(base, fs, windows) ==
    LET m == WalkMatches(base, fs, windows)
    IN  {f \in m : ~\E g \in m : IsProperPrefix(g.dir, f.dir)}

\* driver_path after the search for the actual executable (lines 95-157);
\* the set holds one path per order the directory walk can take
SearchedPaths(cand, fs, windows) ==
    IF ~LooksWrong(cand) THEN {cand}
    ELSE LET base == cand.dir
             found == FoundInPossible(base, fs, windows)
             walked == WalkFirst(base, fs, windows)
         IN  IF found # {} THEN found
             ELSE IF walked # {} THEN walked
             ELSE {cand}

ServiceOf(p) == [tag |-> "service", path |-> p]
Raised == [tag |-> "raise", path |-> AutoDetect]

\* faulty variant: the os.path.exists checks of lines 160 and 168 are left out
VerifiedServiceUnchecked(dp, env) ==
    IF ~env.svcPath THEN Raised
    ELSE IF env.windows /\ ~dp.exe THEN ServiceOf(AddExe(dp))
    ELSE ServiceOf(dp)

\* Service(driver_path) of line 180 once driver_path is settled
VerifiedService(dp, env) ==
    IF dp \notin env.fs THEN Raised
    ELSE IF env.windows /\ ~dp.exe
         THEN IF AddExe(dp) \in env.fs
              THEN (IF env.svcPath THEN ServiceOf(AddExe(dp)) ELSE Raised)
              ELSE Raised
         ELSE IF env.svcPath THEN ServiceOf(dp) ELSE Raised

\* the try block (lines 86-188): the services it can return, or Raised
TryManager(env) ==
    IF ~env.cdm
    THEN {IF env.svcAuto THEN ServiceOf(AutoDetect) ELSE Raised}
    ELSE IF env.install = InstallRaises
         THEN {Raised}
         ELSE {VerifiedService(dp, env) : dp \in SearchedPaths(env.install, env.fs, env.windows)}

\* common_paths of the last resort (lines 209-215)
CommonPaths ==
    << FilePath(HomeWin64Dir, DriverStem, TRUE),
       FilePath(HomeWin32Dir, DriverStem, TRUE),
       FilePath(ProgramFilesDir, DriverStem, TRUE),
       FilePath(ProgramFilesX86Dir, DriverStem, TRUE),
       FilePath(WorkingDir, DriverStem, TRUE) >>

\* "chromedriver.exe", looked up on PATH when it is not in the working directory
BareName == FilePath(WorkingDir, DriverStem, TRUE)

\* the except block (lines 189-247)
Fallback(env) ==
    IF env.svcAuto THEN ServiceOf(AutoDetect)
    ELSE IF env.windows /\ env.svcPath
         THEN LET tried == {i \in 1..Len(CommonPaths) :
                               CommonPaths[i] \in env.fs \/ CommonPaths[i] = BareName}
              IN  ServiceOf(CommonPaths[CHOOSE i \in tried : \A k \in tried : i <= k])
         ELSE Raised

\* the outcomes of _get_chrome_service in the environment env
GetChromeService(env) ==
    {IF r.tag = "raise" THEN Fallback(env) ELSE r : r \in TryManager(env)}

(***************************************************************************)
(* _login: the browser steps in order, and the URL the browser shows after *)
(* the settle delay.                                                       *)
(***************************************************************************)
LoginSteps == << "get_login", "wait_username", "send_email", "find_password",
                 "send_password", "find_submit", "click", "current_url" >>

FeedUrl == "https://www.linkedin.com/feed/"
OwnProfileUrl == "https://www.linkedin.com/in/me/"
LoginUrl == "https://www.linkedin.com/login"
CheckpointUrl == "https://www.linkedin.com/checkpoint/challenge"
LandingUrls == {FeedUrl, OwnProfileUrl, LoginUrl, CheckpointUrl}

\* "feed" in driver.current_url
HasFeed(u) == u = FeedUrl
\* "linkedin.com/in/" in driver.current_url
HasProfileMarker(u) == u = OwnProfileUrl

\* faulty variant: _login answers True whenever no step raised
LoginTrustsAnyUrl(env) == env.raiseAt = 0

\* raiseAt = 0: no step raises; otherwise the index of the step that raises
Login(env) ==
    IF env.raiseAt # 0 THEN FALSE
    ELSE HasFeed(env.url) \/ HasProfileMarker(env.url)

(***************************************************************************)
(* _search_profiles: an href is (origin, path, query); origin "" is a      *)
(* relative href that starts with "/".                                     *)
(***************************************************************************)
NoOrigin == ""
LinkedIn == "https://www.linkedin.com"
OtherSite == "https://other.example"
NoQuery == ""

Href(origin, path, query) == [origin |-> origin, path |-> path, query |-> query]

\* '/in/' in href
HasIn(h) == h.path \in {"/in/p1", "/in/p2", "/in/p3"} \/ h.query = "next=/in/p2"
\* 'linkedin.com' in href
HasHost(h) == h.origin = LinkedIn \/ h.query = "trk=linkedin.com"
\* href.startswith('/')
StartsWithSlash(h) == h.origin = NoOrigin
\* href.startswith('http')
StartsWithHttp(h) == h.origin # NoOrigin
\* f"https://www.linkedin.com{href}"
OnLinkedIn(h) == [h EXCEPT !.origin = LinkedIn]
\* href.split('?')[0]
StripQuery(h) == [h EXCEPT !.query = NoQuery]

\* Strategy 1 on one anchor: page_urls after the anchor
Strategy1Step(page_urls, h, profile_urls) ==
    IF HasIn(h) /\ HasHost(h)
    THEN LET full_url == IF StartsWithSlash(h) THEN OnLinkedIn(h) ELSE StripQuery(h)
         IN  IF /\ HasIn(full_url)
                /\ full_url \notin Range(profile_urls)
                /\ full_url \notin Range(page_urls)
             THEN Append(page_urls, full_url)
             ELSE page_urls
    ELSE page_urls

\* Strategy 2 on the first link of one result container
Strategy2Step(page_urls, h, profile_urls) ==
    IF HasIn(h)
    THEN LET full_url == StripQuery(IF StartsWithHttp(h) THEN h ELSE OnLinkedIn(h))
         IN  IF full_url \notin Range(profile_urls) /\ full_url \notin Range(page_urls)
             THEN Append(page_urls, full_url)
             ELSE page_urls
    ELSE page_urls

RECURSIVE Strategy1(_, _, _, _)
Strategy1(page_urls, anchors, i, profile_urls) ==
    IF i > Len(anchors) THEN page_urls
    ELSE Strategy1(Strategy1Step(page_urls, anchors[i].href, profile_urls), anchors, i + 1, profile_urls)

RECURSIVE Strategy2(_, _, _, _)
Strategy2(page_urls, anchors, i, profile_urls) ==
    IF i > Len(anchors) THEN page_urls
    ELSE Strategy2(IF anchors[i].entity
                   THEN Strategy2Step(page_urls, anchors[i].href, profile_urls)
                   ELSE page_urls,
                   anchors, i + 1, profile_urls)

\* page_urls of one rendered page (lines 320-349)
PageUrls(anchors, profile_urls) ==
    Strategy2(Strategy1(<<>>, anchors, 1, profile_urls), anchors, 1, profile_urls)

RECURSIVE AddUnique(_, _, _)
\* "for url in page_urls: if url not in profile_urls: profile_urls.append(url)"
AddUnique(profile_urls, page_urls, i) ==
    IF i > Len(page_urls) THEN profile_urls
    ELSE AddUnique(IF page_urls[i] \in Range(profile_urls)
                   THEN profile_urls
                   ELSE Append(profile_urls, page_urls[i]),
                   page_urls, i + 1)

\* faulty variant: the pages are counted with the limit rounded up
MaxPagesCeil(lim) == ((lim + 9) \div 10) + 2

\* max_pages = (limit // 10) + 2
MaxPages(lim) == (lim \div 10) + 2

\* the while condition of line 297
MorePages(profile_urls, pg, lim) == Len(profile_urls) < lim /\ pg < MaxPages(lim)

\* page after one turn of the loop: "break" on an empty page comes before "page += 1"
PageAfter(pg, page_urls) == IF page_urls = <<>> THEN pg ELSE pg + 1

\* faulty variant: an empty page does not end the pagination
ContinuePagingNoBreak(page_urls, urls, next, lim) == MorePages(urls, next, lim)

\* the loop takes another turn: no break (lines 359-361) and the while condition holds
ContinuePaging(page_urls, urls, next, lim) == page_urls # <<>> /\ MorePages(urls, next, lim)

\* faulty variant: list(set(profile_urls)) without the [:limit]
SearchReturnsUntruncated(profile_urls, lim) ==
    LET urls == Range(profile_urls)
        n == Cardinality(urls)
    IN  {f \in [1..n -> urls] : \A i, k \in 1..n : f[i] = f[k] => i = k}

\* list(set(profile_urls))[:limit]: a set of str has no fixed iteration order,
\* so the answer is any duplicate-free sequence of the right length over the set
SearchReturns(profile_urls, lim) ==
    LET urls == Range(profile_urls)
        n == Min(lim, Cardinality(urls))
    IN  {f \in [1..n -> urls] : \A i, k \in 1..n : f[i] = f[k] => i = k}

(***************************************************************************)
(* _scrape_profile: a text is the sequence of its characters.              *)
(***************************************************************************)
NA == <<"N", "/", "A">>
AtWord == <<" ", "a", "t", " ">>
Comma == <<",">>

UpperLetters == << "A", "B", "C", "D", "E", "F", "G", "H", "I", "J", "K", "L", "M",
                   "N", "O", "P", "Q", "R", "S", "T", "U", "V", "W", "X", "Y", "Z" >>
LowerLetters == << "a", "b", "c", "d", "e", "f", "g", "h", "i", "j", "k", "l", "m",
                   "n", "o", "p", "q", "r", "s", "t", "u", "v", "w", "x", "y", "z" >>

LowerChar(c) ==
    IF \E i \in 1..Len(UpperLetters) : UpperLetters[i] = c
    THEN LowerLetters[CHOOSE i \in 1..Len(UpperLetters) : UpperLetters[i] = c]
    ELSE c

\* str.lower()
Lower(s) == [i \in 1..Len(s) |-> LowerChar(s[i])]

\* str.isspace() on the characters the texts hold
IsSpace(c) == c \in {" ", "\t", "\n"}

\* str.strip()
Strip(s) ==
    LET keep == {i \in 1..Len(s) : ~IsSpace(s[i])}
    IN  IF keep = {} THEN <<>>
        ELSE SubSeq(s, CHOOSE i \in keep : \A k \in keep : i <= k,
                       CHOOSE i \in keep : \A k \in keep : i >= k)

\* the positions at which sub occurs in s
Occurrences(s, sub) ==
    {i \in 1..(Len(s) - Len(sub) + 1) : SubSeq(s, i, i + Len(sub) - 1) = sub}

\* sub in s
Contains(s, sub) == Occurrences(s, sub) # {}

RECURSIVE LastSegment(_, _)
\* s.split(sub)[-1]: split cuts at the occurrences found from the left
LastSegment(s, sub) ==
    LET occ == Occurrences(s, sub)
    IN  IF occ = {} THEN s
        ELSE LET first == CHOOSE i \in occ : \A k \in occ : i <= k
             IN  LastSegment(SubSeq(s, first + Len(sub), Len(s)), sub)

\* the location keywords of lines 441-446
Gazetteer ==
    << <<"u", "a", "e">>,
       <<"d", "u", "b", "a", "i">>,
       <<"a", "b", "u", " ", "d", "h", "a", "b", "i">>,
       <<"s", "h", "a", "r", "j", "a", "h">>,
       <<"e", "m", "i", "r", "a", "t", "e", "s">>,
       <<"s", "a", "u", "d", "i">>,
       <<"q", "a", "t", "a", "r">>,
       <<"k", "u", "w", "a", "i", "t">>,
       <<"b", "a", "h", "r", "a", "i", "n">>,
       <<"o", "m", "a", "n">>,
       <<"i", "n", "d", "i", "a">>,
       <<"p", "a", "k", "i", "s", "t", "a", "n">>,
       <<"b", "a", "n", "g", "l", "a", "d", "e", "s", "h">>,
       <<"s", "i", "n", "g", "a", "p", "o", "r", "e">>,
       <<"m", "a", "l", "a", "y", "s", "i", "a">>,
       <<"t", "h", "a", "i", "l", "a", "n", "d">>,
       <<"i", "n", "d", "o", "n", "e", "s", "i", "a">>,
       <<"p", "h", "i", "l", "i", "p", "p", "i", "n", "e", "s">>,
       <<"l", "o", "n", "d", "o", "n">>,
       <<"n", "e", "w", " ", "y", "o", "r", "k">>,
       <<"c", "a", "l", "i", "f", "o", "r", "n", "i", "a">>,
       <<"t", "e", "x", "a", "s">>,
       <<"t", "o", "r", "o", "n", "t", "o">>,
       <<"s", "y", "d", "n", "e", "y">>,
       <<"m", "e", "l", "b", "o", "u", "r", "n", "e">>,
       <<"u", "n", "i", "t", "e", "d", " ", "a", "r", "a", "b">>,
       <<"u", "n", "i", "t", "e", "d", " ", "s", "t", "a", "t", "e", "s">>,
       <<"u", "n", "i", "t", "e", "d", " ", "k", "i", "n", "g", "d", "o", "m">>,
       <<"c", "i", "t", "y">>,
       <<"r", "e", "g", "i", "o", "n">>,
       <<"a", "r", "e", "a">>,
       <<"s", "t", "a", "t", "e">>,
       <<"p", "r", "o", "v", "i", "n", "c", "e">>,
       <<"c", "o", "u", "n", "t", "r", "y">> >>

\* len(text) > 2 and len(text) < 100
MinLocationLen == 2
MaxLocationLen == 100

\* faulty variant: the two length bounds are taken inclusive
LooksLikeLocationInclusive(text, name, title) ==
    /\ text # <<>>
    /\ Len(text) >= MinLocationLen
    /\ Len(text) <= MaxLocationLen
    /\ text # name
    /\ text # title
    /\ \/ Contains(text, Comma)
       \/ \E lower \in {Lower(text)} :
             \E w \in 1..Len(Gazetteer) : Contains(lower, Gazetteer[w])

\* the test of lines 437-446 on one candidate text
LooksLikeLocation(text, name, title) ==
    /\ text # <<>>
    /\ Len(text) > MinLocationLen
    /\ Len(text) < MaxLocationLen
    /\ text # name
    /\ text # title
    /\ \/ Contains(text, Comma)
       \/ \E lower \in {Lower(text)} :
             \E w \in 1..Len(Gazetteer) : Contains(lower, Gazetteer[w])

\* one element lookup: it raises (ok = FALSE) or yields the element's text;
\* a lookup of several elements raises or yields their texts in page order
Found(text) == [ok |-> TRUE, text |-> text]
NotFound == [ok |-> FALSE, text |-> <<>>]
FoundAll(texts) == [ok |-> TRUE, texts |-> texts]
LookupRaises == [ok |-> FALSE, texts |-> <<>>]

\* name (lines 385-396)
ExtractName(env) ==
    IF env.h1.ok THEN Strip(env.h1.text)
    ELSE IF env.h1_heading.ok THEN Strip(env.h1_heading.text)
    ELSE NA

\* title (lines 399-408)
ExtractTitle(env) ==
    IF env.body_break.ok THEN Strip(env.body_break.text)
    ELSE IF env.body_medium.ok THEN Strip(env.body_medium.text)
    ELSE NA

\* company from the title (lines 411-413)
CompanyFromTitle(title) ==
    IF Contains(title, AtWord) THEN Strip(LastSegment(title, AtWord)) ELSE NA

\* the first accepted text of one selector's elements, if any
FirstLocation(texts, name, title) ==
    LET hits == {i \in 1..Len(texts) : LooksLikeLocation(Strip(texts[i]), name, title)}
    IN  IF hits = {} THEN NA
        ELSE Strip(texts[CHOOSE i \in hits : \A k \in hits : i <= k])

RECURSIVE LocationFrom(_, _, _, _)
\* the loop over location_selectors (lines 427-452), from selector i on
LocationFrom(selectors, i, name, title) ==
    IF i > Len(selectors) THEN NA
    ELSE IF ~selectors[i].ok THEN LocationFrom(selectors, i + 1, name, title)
    ELSE LET location == FirstLocation(selectors[i].texts, name, title)
         IN  IF location # NA THEN location
             ELSE LocationFrom(selectors, i + 1, name, title)

\* company from the experience section (lines 457-477)
CompanyFromExperience(env, company) ==
    IF company # NA THEN company
    ELSE IF env.exp_links.ok
         THEN (IF env.exp_links.texts # <<>> THEN Strip(env.exp_links.texts[1]) ELSE company)
         ELSE IF env.exp_spans.ok /\ env.exp_spans.texts # <<>>
              THEN Strip(env.exp_spans.texts[1])
              ELSE company

\* faulty variant: the field is returned as extracted
OrNAKeepsEmpty(x) == x

\* x if x else "N/A"
OrNA(x) == IF x = <<>> THEN NA ELSE x

Returned(rec) == [tag |-> "ret", rec |-> rec]
AllNA == [name |-> NA, title |-> NA, company |-> NA, location |-> NA]
ProfileRaised == [tag |-> "raise", rec |-> AllNA]

\* faulty variant: a location lookup that raises is not caught on the spot
ProfileBodyLocationFatal(env) ==
    IF ~env.nav \/ \E i \in 1..Len(env.locations) : ~env.locations[i].ok THEN ProfileRaised
    ELSE LET name == ExtractName(env)
             title == ExtractTitle(env)
             location == LocationFrom(env.locations, 1, name, title)
             company == CompanyFromExperience(env, CompanyFromTitle(title))
         IN  Returned([name |-> OrNA(name), title |-> OrNA(title),
                       company |-> OrNA(company), location |-> OrNA(location)])

\* the body of the outer try (lines 375-484)
ProfileBody(env) ==
    IF ~env.nav THEN ProfileRaised
    ELSE LET name == ExtractName(env)
             title == ExtractTitle(env)
             location == LocationFrom(env.locations, 1, name, title)
             company == CompanyFromExperience(env, CompanyFromTitle(title))
         IN  Returned([name |-> OrNA(name), title |-> OrNA(title),
                       company |-> OrNA(company), location |-> OrNA(location)])

\* faulty variant: _scrape_profile without its outer except block
ScrapeProfileNoHandler(env) == ProfileBody(env)

\* _scrape_profile: the outer except returns the all-"N/A" record
ScrapeProfile(env) ==
    LET body == ProfileBody(env)
    IN  IF body.tag = "raise" THEN Returned(AllNA) ELSE body

(***************************************************************************)
(* Inputs: what the file system, the login surface, the search pages and   *)
(* the profile pages can look like.                                        *)
(***************************************************************************)
FileUniverse ==
    { FilePath(BaseDir, DriverStem, FALSE), FilePath(BaseDir, DriverStem, TRUE),
      FilePath(BaseDir, NoticesStem, FALSE), FilePath(BaseDir, NoticesStem, TRUE),
      FilePath(CacheDir, DriverStem, TRUE),
      FilePath(Win64Dir, DriverStem, TRUE), FilePath(Win64Dir, DriverStem, FALSE),
      FilePath(SubDir, DriverStem, FALSE), FilePath(SubDir, DriverStem, TRUE),
      FilePath(HomeWin64Dir, DriverStem, TRUE),
      FilePath(ProgramFilesDir, DriverStem, TRUE),
      FilePath(WorkingDir, DriverStem, TRUE) }

\* what ChromeDriverManager().install() can answer
InstallAnswers ==
    { FilePath(BaseDir, DriverStem, FALSE), FilePath(BaseDir, DriverStem, TRUE),
      FilePath(BaseDir, NoticesStem, FALSE), FilePath(Win64Dir, DriverStem, TRUE),
      InstallRaises }

FileSystems == {fs \in SUBSET FileUniverse : Cardinality(fs) <= MaxFiles}

ResolveEnvs ==
    [cdm : BOOLEAN, install : InstallAnswers, windows : BOOLEAN, fs : FileSystems,
     svcAuto : BOOLEAN, svcPath : BOOLEAN]

\* the environments of the jobs that go on to scrape
JobResolveEnvs ==
    {e \in ResolveEnvs :
        /\ e.cdm /\ ~e.windows /\ e.svcPath
        /\ e.install \in {FilePath(BaseDir, DriverStem, FALSE), InstallRaises}
        /\ e.fs \subseteq {FilePath(BaseDir, DriverStem, FALSE)} }

LoginEnvs == [raiseAt : 0..Len(LoginSteps), url : LandingUrls]

\* the inputs used when two jobs run side by side
PlainResolveEnvs == {e \in JobResolveEnvs : e.install = InstallRaises /\ e.fs = {}}

PlainLoginEnvs == {e \in LoginEnvs : e.raiseAt = 0 /\ e.url \in {FeedUrl, LoginUrl}}

Anchor(h, entity) == [href |-> h, entity |-> entity]

AnchorSet ==
    { Anchor(Href(LinkedIn, "/in/p1", NoQuery), FALSE),
      Anchor(Href(LinkedIn, "/in/p1", "q=1"), TRUE),
      Anchor(Href(NoOrigin, "/in/p1", "trk=linkedin.com"), TRUE),
      Anchor(Href(NoOrigin, "/in/p2", NoQuery), TRUE),
      Anchor(Href(LinkedIn, "/in/p3", NoQuery), FALSE),
      Anchor(Href(LinkedIn, "/company/c", "next=/in/p2"), TRUE),
      Anchor(Href(OtherSite, "/in/p1", NoQuery), FALSE) }

SearchPages == SeqUpTo(AnchorSet, MaxAnchors)

PlainAnchors == { Anchor(Href(LinkedIn, "/in/p1", NoQuery), FALSE),
                  Anchor(Href(LinkedIn, "/in/p2", NoQuery), TRUE) }

PlainPages == SeqUpTo(PlainAnchors, MaxAnchors)

TEmpty == <<>>
TBlank == <<" ">>
TAl == <<"A", "l">>
TAlPadded == <<" ", "A", "l", " ">>
TDev == <<"D", "e", "v">>
TDevAtCo == <<"D", "e", "v", " ", "a", "t", " ", "C", "o">>
TCo == <<"C", "o">>
TLab == <<"L", "a", "b">>
TDubai == <<"D", "u", "b", "a", "i">>
TTown == <<"A", ",", " ", "B">>
TNews == <<"5", "0", "0", "+">>
TTwo == <<"A", ",">>
\* a text of n characters that holds a comma
TLong(n) == [i \in 1..n |-> IF i = 1 THEN "," ELSE "x"]

LocationCases ==
    { <<a, b, LookupRaises, FoundAll(<<>>), c>> :
        a \in {LookupRaises, FoundAll(<<>>), FoundAll(<<TAl, TNews, TDubai>>),
               FoundAll(<<TTwo, TLong(MaxLocationLen)>>),
               FoundAll(<<TTwo, TLong(MaxLocationLen), TLong(MaxLocationLen - 1)>>)},
        b \in {LookupRaises, FoundAll(<<TEmpty, TDev>>)},
        c \in {LookupRaises, FoundAll(<<TTown>>)} }

ProfileEnvs ==
    [nav : BOOLEAN,
     h1 : {NotFound, Found(TEmpty), Found(TAlPadded)},
     h1_heading : {NotFound, Found(TAl)},
     body_break : {NotFound, Found(TBlank), Found(TDevAtCo)},
     body_medium : {NotFound, Found(TDev)},
     locations : LocationCases,
     exp_links : {LookupRaises, FoundAll(<<>>), FoundAll(<<TBlank>>), FoundAll(<<TCo>>)},
     exp_spans : {LookupRaises, FoundAll(<<TLab>>)}]

\* the profile pages the jobs visit
JobProfileEnvs ==
    {e \in ProfileEnvs :
        /\ e.h1_heading = NotFound
        /\ e.body_medium = NotFound
        /\ e.exp_links = LookupRaises
        /\ e.exp_spans = LookupRaises
        /\ \/ /\ e.nav
              /\ e.h1 = Found(TAlPadded)
              /\ e.body_break \in {NotFound, Found(TDevAtCo)}
              /\ e.locations \in { <<LookupRaises, LookupRaises, LookupRaises, FoundAll(<<>>), LookupRaises>>,
                                   <<FoundAll(<<TAl, TNews, TDubai>>), LookupRaises, LookupRaises,
                                     FoundAll(<<>>), LookupRaises>> }
              /\ e.body_break = NotFound <=> e.locations[1] = LookupRaises
           \/ /\ ~e.nav
              /\ e.h1 = NotFound
              /\ e.body_break = NotFound
              /\ e.locations = <<LookupRaises, LookupRaises, LookupRaises, FoundAll(<<>>), LookupRaises>> }

PlainProfileEnvs == {e \in JobProfileEnvs : e.nav /\ e.body_break # NotFound}

\* the profile pages of a batch of two: every case of the location lookups,
\* with or without a name and a headline
VisitEnvs ==
    [nav : BOOLEAN,
     h1 : {NotFound, Found(TAlPadded)},
     h1_heading : {NotFound},
     body_break : {NotFound, Found(TDevAtCo)},
     body_medium : {NotFound},
     locations : LocationCases,
     exp_links : {FoundAll(<<TCo>>)},
     exp_spans : {LookupRaises}]

VisitUrls == << Href(LinkedIn, "/in/p1", NoQuery), Href(LinkedIn, "/in/p2", NoQuery) >>

(***************************************************************************)
(* gemini_keyword_extractor.py: extract_keywords and _fallback_extraction. *)
(* A prompt and a response are texts; a keyword list is a sequence of      *)
(* texts.                                                                  *)
(***************************************************************************)
\* stop_words (lines 85-87)
StopWords ==
    {<<"t", "h", "e">>, <<"a">>, <<"a", "n">>, <<"a", "n", "d">>, <<"o", "r">>,
     <<"b", "u", "t">>, <<"i", "n">>, <<"o", "n">>, <<"a", "t">>, <<"t", "o">>,
     <<"f", "o", "r">>, <<"o", "f">>, <<"w", "i", "t", "h">>, <<"b", "y">>, <<"i">>,
     <<"w", "a", "n", "t">>, <<"l", "e", "a", "d", "s">>, <<"t", "h", "e", "y">>,
     <<"a", "r", "e">>, <<"d", "o", "i", "n", "g">>}

\* len(w) > 2
ShortWordLen == 2
\* keywords[:7]
MaxKeywords == 7

\* ['business', 'professional']
DefaultKeywords == << <<"b", "u", "s", "i", "n", "e", "s", "s">>,
                     <<"p", "r", "o", "f", "e", "s", "s", "i", "o", "n", "a", "l">> >>

RECURSIVE Split(_)
\* str.split(): the maximal runs of characters that are not whitespace
Split(s) ==
    LET keep == {i \in 1..Len(s) : ~IsSpace(s[i])}
    IN  IF keep = {} THEN <<>>
        ELSE LET first == CHOOSE i \in keep : \A k \in keep : i <= k
                 stops == {i \in first..Len(s) : IsSpace(s[i])}
                 last == IF stops = {} THEN Len(s)
                         ELSE (CHOOSE i \in stops : \A k \in stops : i <= k) - 1
             IN  <<SubSeq(s, first, last)>> \o Split(SubSeq(s, last + 1, Len(s)))

RECURSIVE SplitOn(_, _)
\* str.split(sep) for a one-character sep: the segments between the separators
SplitOn(s, sep) ==
    LET cuts == {i \in 1..Len(s) : s[i] = sep}
    IN  IF cuts = {} THEN <<s>>
        ELSE LET first == CHOOSE i \in cuts : \A k \in cuts : i <= k
             IN  <<SubSeq(s, 1, first - 1)>> \o SplitOn(SubSeq(s, first + 1, Len(s)), sep)

\* "w not in stop_words and len(w) > 2"
KeepWord(w) == w \notin StopWords /\ Len(w) > ShortWordLen

\* faulty variant: the result is returned without the [:7]
FallbackExtractionUntruncated(prompt) ==
    LET keywords == SelectSeq(Split(Lower(prompt)), KeepWord)
    IN  IF keywords # <<>> THEN keywords ELSE DefaultKeywords

\* _fallback_extraction (lines 82-92)
FallbackExtraction(prompt) ==
    LET words == Split(Lower(prompt))
        keywords == SelectSeq(words, KeepWord)
    IN  IF keywords # <<>> THEN Take(keywords, MaxKeywords) ELSE DefaultKeywords

\* what the backing service does: generate_content raises, response.text
\* raises, or the response carries a text
ServiceRaises == [tag |-> "raise", text |-> <<>>]
TextRaises == [tag |-> "text_raise", text |-> <<>>]
ServiceText(text) == [tag |-> "text", text |-> text]

\* "[kw.strip() for kw in keywords_text.split(',') if kw.strip()]"
ParseKeywords(text) ==
    LET parts == SplitOn(Strip(text), ",")
        stripped == [i \in 1..Len(parts) |-> Strip(parts[i])]
    IN  SelectSeq(stripped, LAMBDA kw : kw # <<>>)

KeywordsReturned(keywords) == [tag |-> "ret", value |-> keywords]
KeywordsRaised == [tag |-> "raise", value |-> <<>>]
NoKeywords == [tag |-> "none", value |-> <<>>]

\* faulty variant: extract_keywords without its except block
ExtractKeywordsNoHandler(prompt, response) ==
    IF response.tag # "text" THEN KeywordsRaised
    ELSE LET keywords == ParseKeywords(response.text)
         IN  IF keywords = <<>> THEN KeywordsReturned(Take(FallbackExtraction(prompt), MaxKeywords))
             ELSE KeywordsReturned(Take(keywords, MaxKeywords))

\* extract_keywords (lines 55-80)
ExtractKeywords(prompt, response) ==
    IF response.tag # "text" THEN KeywordsReturned(FallbackExtraction(prompt))
    ELSE LET keywords == ParseKeywords(response.text)
         IN  IF keywords = <<>> THEN KeywordsReturned(Take(FallbackExtraction(prompt), MaxKeywords))
             ELSE KeywordsReturned(Take(keywords, MaxKeywords))

\* largest number of pieces appended to a prompt or to a response
MaxWords == 3

\* pieces of a prompt: tokens, and blanks that only widen the whitespace
WBlank == <<>>
WTab == <<"\t">>
WThe == <<"T", "h", "e">>
WFood == <<"F", "o", "o", "d">>
WAb == <<"a", "b">>
WDubai == <<"d", "u", "b", "a", "i">>
PromptPieces == {WBlank, WTab, WThe, WFood, WAb, WDubai}

\* "i want the leads they are doing the food business in dubai"
ExampleWords ==
    << <<"i">>, <<"w", "a", "n", "t">>, <<"t", "h", "e">>, <<"l", "e", "a", "d", "s">>,
       <<"t", "h", "e", "y">>, <<"a", "r", "e">>, <<"d", "o", "i", "n", "g">>, <<"t", "h", "e">>,
       <<"f", "o", "o", "d">>, <<"b", "u", "s", "i", "n", "e", "s", "s">>, <<"i", "n">>,
       <<"d", "u", "b", "a", "i">> >>
\* seven words that _fallback_extraction keeps
SevenWords ==
    << <<"f", "o", "o", "d">>, <<"t", "e", "c", "h">>, <<"d", "u", "b", "a", "i">>,
       <<"l", "o", "n", "d", "o", "n">>, <<"s", "a", "l", "e", "s">>,
       <<"r", "e", "t", "a", "i", "l">>, <<"b", "a", "n", "k", "i", "n", "g">> >>

RECURSIVE JoinWith(_, _)
\* the text that holds the pieces with sep between them
JoinWith(pieces, sep) ==
    IF pieces = <<>> THEN <<>>
    ELSE IF Len(pieces) = 1 THEN pieces[1]
    ELSE pieces[1] \o sep \o JoinWith(Tail(pieces), sep)

\* the prompts, as the pieces a single space separates
PromptWordLists ==
    {h \o t : h \in {<<>>, ExampleWords, SevenWords}, t \in SeqUpTo(PromptPieces, MaxWords)}
PlainPromptWordLists ==
    {<<>>, <<WThe, WAb>>, ExampleWords, SevenWords \o <<WDubai>>}
PromptOf(words) == JoinWith(words, <<" ">>)

\* pieces of a response text, which commas separate
PBlank == <<>>
PSpace == <<" ">>
PFoodDubai == <<"f", "o", "o", "d", " ", "d", "u", "b", "a", "i">>
PTechLondon == <<" ", "T", "e", "c", "h", " ", "L", "o", "n", "d", "o", "n", " ">>
ResponsePieces == {PBlank, PSpace, PFoodDubai, PTechLondon}
SevenPhrases ==
    << <<"f", "o", "o", "d", " ", "d", "u", "b", "a", "i">>,
       <<"t", "e", "c", "h", " ", "l", "o", "n", "d", "o", "n">>, <<"s", "a", "l", "e", "s">>,
       <<"r", "e", "t", "a", "i", "l", " ", "u", "a", "e">>, <<"b", "a", "n", "k">>,
       <<"c", "a", "f", "e">>, <<"s", "h", "o", "p", " ", "o", "m", "a", "n">> >>

NoResponse == [tag |-> "none", parts |-> <<>>]
Responses ==
    {[tag |-> "raise", parts |-> <<>>], [tag |-> "text_raise", parts |-> <<>>]}
    \cup {[tag |-> "text", parts |-> h \o t] :
             h \in {<<>>, SevenPhrases}, t \in SeqUpTo(ResponsePieces, MaxWords)}
\* the behaviour of the backing service that the response r stands for
ServiceOfResponse(r) ==
    IF r.tag = "raise" THEN ServiceRaises
    ELSE IF r.tag = "text_raise" THEN TextRaises
    ELSE ServiceText(JoinWith(r.parts, <<",">>))


(***************************************************************************)
(* save_to_csv: the file is the text that csv.DictWriter writes.           *)
(***************************************************************************)
\* fieldnames (line 570)
Fieldnames == << "name", "title", "company", "location" >>
\* the header cell of a field name
FieldText(key) ==
    CASE key = "name" -> <<"n", "a", "m", "e">>
      [] key = "title" -> <<"t", "i", "t", "l", "e">>
      [] key = "company" -> <<"c", "o", "m", "p", "a", "n", "y">>
      [] key = "location" -> <<"l", "o", "c", "a", "t", "i", "o", "n">>

\* the csv module's default dialect: delimiter, quotechar, lineterminator
Delimiter == ","
QuoteChar == "\""
LineTerminator == << "\r", "\n" >>

\* QUOTE_MINIMAL: a cell is quoted when it holds a special character
NeedsQuote(text) ==
    \E i \in 1..Len(text) : text[i] \in {Delimiter, QuoteChar, "\r", "\n"}

RECURSIVE DoubleQuotes(_)
\* doublequote: every quote character inside a quoted cell is written twice
DoubleQuotes(text) ==
    IF text = <<>> THEN <<>>
    ELSE (IF Head(text) = QuoteChar THEN <<QuoteChar, QuoteChar>> ELSE <<Head(text)>>)
         \o DoubleQuotes(Tail(text))

\* faulty variant: the writer never quotes a cell
WriteCellUnquoted(text) == text

\* one cell as the writer puts it in the file
WriteCell(text) ==
    IF NeedsQuote(text) THEN <<QuoteChar>> \o DoubleQuotes(text) \o <<QuoteChar>> ELSE text

\* writer.writerow: the cells, delimiters between them, the line terminator
WriteRow(cells) ==
    JoinWith([i \in 1..Len(cells) |-> WriteCell(cells[i])], <<Delimiter>>) \o LineTerminator

\* profile.get(key, 'N/A')
Get(profile, key) == IF key \in DOMAIN profile THEN profile[key] ELSE NA

\* the dict of lines 575-580, in the order of fieldnames
RowOf(profile) == [i \in 1..Len(Fieldnames) |-> Get(profile, Fieldnames[i])]

RECURSIVE WriteRows(_)
WriteRows(profiles) ==
    IF profiles = <<>> THEN <<>>
    ELSE WriteRow(RowOf(Head(profiles))) \o WriteRows(Tail(profiles))

\* os.path.dirname(os.path.abspath(__file__))
ScriptDir == "backend/task1"
\* os.path.join(script_dir, filename)
PathJoin(dir, filename) == << dir, filename >>

NoFile == [path |-> <<>>, content |-> <<>>]
NoPath == <<>>

\* save_to_csv (lines 563-582): the file it leaves and the path it returns
SaveToCsv(profiles, filename) ==
    LET filepath == PathJoin(ScriptDir, filename)
        header == WriteRow([i \in 1..Len(Fieldnames) |-> FieldText(Fieldnames[i])])
    IN  [file |-> [path |-> filepath, content |-> header \o WriteRows(profiles)],
         ret |-> filepath]

\* largest number of records handed to save_to_csv
MaxRecords == 2

\* texts with the characters the writer treats specially
TQuoted == << "\"", "A", "\"" >>
TLines == << "a", "\n", "b" >>

CsvRecords ==
    {[name |-> n, title |-> t, company |-> c, location |-> l] :
        n \in {TAl, NA}, t \in {TDev, TQuoted}, c \in {NA, TLines}, l \in {TTown, NA}}
CsvInputs == SeqUpTo(CsvRecords, MaxRecords)
Filenames == {"profiles.csv", "leads.csv"}

(***************************************************************************)
(* State.                                                                  *)
(***************************************************************************)
Jobs == {1, 2}
\* one request
OneJob == {1}

VARIABLES
    scraper,        \* job -> the LinkedInScraper instance (and its one-worker executor) it uses
    pc,             \* job -> position of the job in scrape_profiles / _scrape
    limit,          \* job -> limit
    service,        \* job -> what _get_chrome_service returned
    on_disk,        \* job -> os.path.exists of the returned service's path at return time
    driver,         \* job -> "none" (driver is None), "open", "closed" (after quit)
    quits,          \* job -> number of driver.quit() calls
    page,           \* job -> page of _search_profiles
    fetched,        \* job -> number of search pages requested
    profile_urls,   \* job -> profile_urls of _search_profiles
    search_ret,     \* job -> "none", "list" (search returned), "raise" (search raised)
    faulted,        \* job -> a step of the pagination raised
    found,          \* job -> profile_urls of _scrape: the list search returned
    profiles,       \* job -> profiles of _scrape
    result,         \* job -> outcome of _scrape: returned list or raised error
    delivered,      \* job -> the awaiting caller has got the outcome
    login_env,      \* job -> what the login surface did when _login ran
    discovered,     \* job -> number of unique URLs _search_profiles held when it ended
    last_new,       \* job -> number of new URLs the last parsed search page contributed
    visited,        \* job -> the URLs handed to _scrape_profile so far, in order
    reply,          \* job -> what scrape_leads answered the request with
    resolve_env,    \* the environment _get_chrome_service runs in, when it is fixed beforehand
    profile_env,    \* the profile page given to _scrape_profile on its own
    profile_out,    \* what _scrape_profile answered for profile_env
    prompt_words,   \* the prompt given to the keyword extractor, as its pieces
    response,       \* what the backing service did when extract_keywords called it
    keywords,       \* what the keyword extractor answered
    export_in,      \* the records handed to save_to_csv
    csvfile,        \* the file save_to_csv wrote: its path and its text
    filepath,       \* what save_to_csv returned
    phone_numbers,  \* PhoneManager.phone_numbers: the set of stored numbers
    storage_file,   \* the numbers the storage file holds
    phone_in,       \* the argument of the last PhoneManager call
    phone_ret       \* what the last PhoneManager call returned

vars == << scraper, pc, limit, service, on_disk, driver, quits, page, fetched, profile_urls,
           search_ret, faulted, found, profiles, result, delivered, login_env, discovered,
           last_new, visited, reply,
           resolve_env, profile_env, profile_out, prompt_words, response, keywords,
           export_in, csvfile, filepath,
           phone_numbers, storage_file, phone_in, phone_ret >>

kwVars == << prompt_words, response, keywords >>

csvVars == << export_in, csvfile, filepath >>

phoneVars == << phone_numbers, storage_file, phone_in, phone_ret >>

aux == << resolve_env, profile_env, profile_out, kwVars, csvVars, phoneVars >>

jobVars == << scraper, pc, limit, service, on_disk, driver, quits, page, fetched, profile_urls,
              search_ret, faulted, found, profiles, result, delivered, login_env, discovered,
              last_new, visited, reply >>

NoResult == [tag |-> "none", error |-> "", value |-> <<>>]
ReturnOf(value) == [tag |-> "ret", error |-> "", value |-> value]
RaiseOf(error) == [tag |-> "raise", error |-> error, value |-> <<>>]

NoService == [tag |-> "none", path |-> AutoDetect]
NoLogin == [raiseAt |-> 0, url |-> ""]
NoEnv == [nav |-> FALSE]
NoResolveEnv == [cdm |-> FALSE]
NoOut == [tag |-> "none", rec |-> AllNA]

\* what scrape_leads answers: ScrapeResponse (status 200) or HTTPException
NoReply == [status |-> 0, csv_path |-> NoPath, profiles |-> <<>>]
HttpError(status_code) == [status |-> status_code, csv_path |-> NoPath, profiles |-> <<>>]
ScrapeResponse(path, records) == [status |-> 200, csv_path |-> path, profiles |-> records]

\* the keyword extractor has not been called
KeywordsIdle == prompt_words = <<>> /\ response = NoResponse /\ keywords = NoKeywords

\* save_to_csv has not been called
ExportIdle == export_in = <<>> /\ csvfile = NoFile /\ filepath = NoPath

\* what a PhoneManager call returned: nothing yet, or a call that returns None
NoReturn == [op |-> "none"]

\* a PhoneManager built on no storage file: the store is empty (lines 12-15)
PhoneIdle ==
    /\ phone_numbers = {}
    /\ storage_file = {}
    /\ phone_in = <<>>
    /\ phone_ret = NoReturn

Running == {"resolve", "create", "login", "search", "extract"}
Terminal == {"done", "failed"}

\* each request constructs its own scraper (app.py line 78)
InitJobs(jobs) ==
    /\ scraper = [j \in Jobs |-> j]
    /\ pc = [j \in Jobs |-> "idle"]
    /\ limit \in {l \in [Jobs -> 1..MaxLimit] : \A j \in Jobs \ jobs : l[j] = 1}
    /\ service = [j \in Jobs |-> NoService]
    /\ on_disk = [j \in Jobs |-> FALSE]
    /\ driver = [j \in Jobs |-> "none"]
    /\ quits = [j \in Jobs |-> 0]
    /\ page = [j \in Jobs |-> 0]
    /\ fetched = [j \in Jobs |-> 0]
    /\ profile_urls = [j \in Jobs |-> <<>>]
    /\ search_ret = [j \in Jobs |-> "none"]
    /\ faulted = [j \in Jobs |-> FALSE]
    /\ found = [j \in Jobs |-> <<>>]
    /\ profiles = [j \in Jobs |-> <<>>]
    /\ result = [j \in Jobs |-> NoResult]
    /\ delivered = [j \in Jobs |-> FALSE]
    /\ login_env = [j \in Jobs |-> NoLogin]
    /\ discovered = [j \in Jobs |-> 0]
    /\ last_new = [j \in Jobs |-> 0]
    /\ visited = [j \in Jobs |-> <<>>]
    /\ reply = [j \in Jobs |-> NoReply]

Init ==
    /\ InitJobs(OneJob)
    /\ resolve_env = NoResolveEnv
    /\ profile_env = NoEnv
    /\ profile_out = NoOut
    /\ KeywordsIdle
    /\ ExportIdle
    /\ PhoneIdle

(***************************************************************************)
(* scrape_profiles and _scrape, one action per browser interaction.        *)
(***************************************************************************)
\* faulty variant: the profiles are visited from the last URL to the first
ToVisitReversed(urls, lim) ==
    LET todo == Take(urls, lim)
    IN  [i \in 1..Len(todo) |-> todo[Len(todo) + 1 - i]]

\* profile_urls[:limit] of the extraction loop (line 538)
ToVisit(urls, lim) == Take(urls, lim)

\* faulty variant: the finally block forgets driver.quit()
QuitCallsNone(d) == 0

\* faulty variant: the finally block quits without looking at driver
QuitCallsUnguarded(d) == 1

\* the finally block (lines 554-558): "if driver: driver.quit()"
QuitCalls(d) == IF d # "none" THEN 1 ELSE 0

\* faulty variant: the session is left open when _scrape leaves
DriverLeftOpen(d) == d

DriverAfterFinally(d) == IF d # "none" THEN "closed" ELSE d

\* faulty variant: the outcome is recorded but _scrape goes on where it was
LeaveKeepsRunning(j, outcome) ==
    /\ quits' = [quits EXCEPT ![j] = @ + QuitCalls(driver[j])]
    /\ driver' = [driver EXCEPT ![j] = DriverAfterFinally(@)]
    /\ result' = [result EXCEPT ![j] = outcome]
    /\ UNCHANGED pc

\* _scrape leaves with outcome: the finally block runs, then the outcome stands
Leave(j, outcome) ==
    /\ quits' = [quits EXCEPT ![j] = @ + QuitCalls(driver[j])]
    /\ driver' = [driver EXCEPT ![j] = DriverAfterFinally(@)]
    /\ result' = [result EXCEPT ![j] = outcome]
    /\ pc' = [pc EXCEPT ![j] = IF outcome.tag = "ret" THEN "done" ELSE "failed"]

\* scrape_leads builds a scraper and awaits scrape_profiles, which hands
\* _scrape to the scraper's executor (app.py lines 78-84, line 560)
Submit(j) ==
    /\ pc[j] = "idle"
    /\ pc' = [pc EXCEPT ![j] = "queued"]
    /\ UNCHANGED << login_env, discovered >>
    /\ UNCHANGED aux
    /\ UNCHANGED << last_new, visited, reply >>
    /\ UNCHANGED << scraper, limit, service, on_disk, driver, quits, page, fetched, profile_urls,
                    search_ret, faulted, found, profiles, result, delivered >>

\* faulty variant: the executor never hands the job to its worker
WorkerNeverFree(j) == FALSE

\* faulty variant: the executor has a worker for every job
WorkerAlwaysFree(j) == TRUE

\* ThreadPoolExecutor(max_workers=1): the one worker of the job's scraper takes it
WorkerFree(j) == \A k \in Jobs \ {j} : scraper[k] = scraper[j] => pc[k] \notin Running

Start(j) ==
    /\ pc[j] = "queued"
    /\ WorkerFree(j)
    /\ pc' = [pc EXCEPT ![j] = "resolve"]
    /\ UNCHANGED << login_env, discovered >>
    /\ UNCHANGED aux
    /\ UNCHANGED << last_new, visited, reply >>
    /\ UNCHANGED << scraper, limit, service, on_disk, driver, quits, page, fetched, profile_urls,
                    search_ret, faulted, found, profiles, result, delivered >>

\* Step 2: service = self._get_chrome_service()
Resolve(j, env) ==
    /\ pc[j] = "resolve"
    /\ \E r \in GetChromeService(env) :
          IF r.tag = "raise"
          THEN /\ Leave(j, RaiseOf("driver_not_found"))
               /\ service' = [service EXCEPT ![j] = r]
               /\ UNCHANGED on_disk
          ELSE /\ service' = [service EXCEPT ![j] = r]
               /\ on_disk' = [on_disk EXCEPT ![j] = r.path \in env.fs]
               /\ pc' = [pc EXCEPT ![j] = "create"]
               /\ UNCHANGED << driver, quits, result >>
    /\ UNCHANGED << login_env, discovered >>
    /\ UNCHANGED aux
    /\ UNCHANGED << last_new, visited, reply >>
    /\ UNCHANGED << scraper, limit, page, fetched, profile_urls, search_ret, faulted, found,
                    profiles, delivered >>

\* Step 3: driver = webdriver.Chrome(service=service, options=options)
Create(j, ok) ==
    /\ pc[j] = "create"
    /\ IF ok
       THEN /\ driver' = [driver EXCEPT ![j] = "open"]
            /\ pc' = [pc EXCEPT ![j] = "login"]
            /\ UNCHANGED << quits, result >>
       ELSE Leave(j, RaiseOf("browser_not_created"))
    /\ UNCHANGED << login_env, discovered >>
    /\ UNCHANGED aux
    /\ UNCHANGED << last_new, visited, reply >>
    /\ UNCHANGED << scraper, limit, service, on_disk, page, fetched, profile_urls, search_ret,
                    faulted, found, profiles, delivered >>

\* Step 4: "if not self._login(driver): raise Exception(...)"
DoLogin(j, env) ==
    /\ pc[j] = "login"
    /\ IF Login(env)
       THEN /\ pc' = [pc EXCEPT ![j] = "search"]
            /\ UNCHANGED << driver, quits, result >>
       ELSE Leave(j, RaiseOf("login_failed"))
    /\ login_env' = [login_env EXCEPT ![j] = env]
    /\ UNCHANGED discovered
    /\ UNCHANGED aux
    /\ UNCHANGED << last_new, visited, reply >>
    /\ UNCHANGED << scraper, limit, service, on_disk, page, fetched, profile_urls, search_ret,
                    faulted, found, profiles, delivered >>

\* faulty variant: _search_profiles without its except block
SearchOnFaultRaises(urls) == [tag |-> "raise", urls |-> <<>>]

\* faulty variant: the except block returns what the earlier pages gave
SearchOnFaultKeepsUrls(urls) == [tag |-> "list", urls |-> urls]

\* the except block of _search_profiles (lines 368-370)
SearchOnFault(urls) == [tag |-> "list", urls |-> <<>>]

\* faulty variant: an empty search result is raised as an error
OutcomeOfSearchEmptyFails(answer) ==
    IF answer.tag = "raise" \/ answer.urls = <<>> THEN RaiseOf("search_error") ELSE NoResult

\* how _scrape goes on once _search_profiles has answered (lines 528-537):
\* an exception leaves through the except block, "if not profile_urls: return []"
OutcomeOfSearch(answer) ==
    IF answer.tag = "raise" THEN RaiseOf("search_error")
    ELSE IF answer.urls = <<>> THEN ReturnOf(<<>>)
    ELSE NoResult

AfterSearch(j, answer) ==
    /\ search_ret' = [search_ret EXCEPT ![j] = answer.tag]
    /\ found' = [found EXCEPT ![j] = answer.urls]
    /\ IF OutcomeOfSearch(answer) # NoResult
       THEN Leave(j, OutcomeOfSearch(answer))
       ELSE /\ pc' = [pc EXCEPT ![j] = "extract"]
            /\ UNCHANGED << driver, quits, result >>

\* Step 5, one turn of the while loop of _search_profiles: the page is
\* requested and either a step raises or the rendered page is parsed
FetchPage(j, fault, anchors) ==
    /\ pc[j] = "search"
    /\ fetched' = [fetched EXCEPT ![j] = @ + 1]
    /\ IF fault
       THEN /\ faulted' = [faulted EXCEPT ![j] = TRUE]
            /\ discovered' = [discovered EXCEPT ![j] = Len(profile_urls[j])]
            /\ UNCHANGED << page, profile_urls, last_new >>
            /\ AfterSearch(j, SearchOnFault(profile_urls[j]))
       ELSE \E page_urls \in {PageUrls(anchors, profile_urls[j])} :
            \E urls \in {AddUnique(profile_urls[j], page_urls, 1)},
               next \in {PageAfter(page[j], page_urls)} :
                /\ profile_urls' = [profile_urls EXCEPT ![j] = urls]
                /\ page' = [page EXCEPT ![j] = next]
                /\ last_new' = [last_new EXCEPT ![j] = Len(page_urls)]
                /\ UNCHANGED faulted
                /\ IF ContinuePaging(page_urls, urls, next, limit[j])
                   THEN UNCHANGED << pc, driver, quits, result, search_ret, found, discovered >>
                   ELSE /\ discovered' = [discovered EXCEPT ![j] = Len(urls)]
                        /\ \E r \in SearchReturns(urls, limit[j]) :
                              AfterSearch(j, [tag |-> "list", urls |-> r])
    /\ UNCHANGED login_env
    /\ UNCHANGED aux
    /\ UNCHANGED << visited, reply >>
    /\ UNCHANGED << scraper, limit, service, on_disk, profiles, delivered >>

\* Step 6, one turn of "for idx, url in enumerate(profile_urls[:limit], 1)";
\* _search_profiles has returned and its locals (page, its profile_urls) are gone
ScrapeOne(j, env) ==
    /\ pc[j] = "extract"
    /\ \E out \in {ScrapeProfile(env)}, todo \in {ToVisit(found[j], limit[j])} :
           /\ visited' = [visited EXCEPT ![j] = Append(@, todo[Len(profiles[j]) + 1])]
           /\ IF out.tag = "raise"
              THEN /\ Leave(j, RaiseOf("extract_error"))
                   /\ UNCHANGED profiles
              ELSE /\ profiles' = [profiles EXCEPT ![j] = Append(@, out.rec)]
                   /\ IF Len(profiles[j]) + 1 >= Len(todo)
                      THEN Leave(j, ReturnOf(Append(profiles[j], out.rec)))
                      ELSE UNCHANGED << pc, driver, quits, result >>
           /\ profile_env' = env
           /\ profile_out' = out
    /\ UNCHANGED << login_env, discovered >>
    /\ UNCHANGED << resolve_env, kwVars, csvVars, phoneVars >>
    /\ UNCHANGED << last_new, reply >>
    /\ page' = [page EXCEPT ![j] = 0]
    /\ profile_urls' = [profile_urls EXCEPT ![j] = <<>>]
    /\ UNCHANGED << scraper, limit, service, on_disk, fetched, search_ret, faulted, found,
                    delivered >>

\* "profiles = await loop.run_in_executor(...)": the caller gets the outcome
Deliver(j) ==
    /\ pc[j] \in Terminal
    /\ ~delivered[j]
    /\ delivered' = [delivered EXCEPT ![j] = TRUE]
    /\ UNCHANGED << login_env, discovered >>
    /\ UNCHANGED aux
    /\ UNCHANGED << last_new, visited, reply >>
    /\ UNCHANGED << scraper, pc, limit, service, on_disk, driver, quits, page, fetched,
                    profile_urls, search_ret, faulted, found, profiles, result >>

\* faulty variant: an empty result is answered like any other result
StatusOfEmptyOk(outcome) == IF outcome.tag = "raise" THEN 500 ELSE 200

\* the status scrape_leads answers with once scrape_profiles has returned or
\* raised (app.py lines 84-92 and 112-121), if the export does not fail
StatusOf(outcome) ==
    IF outcome.tag = "raise" THEN 500
    ELSE IF outcome.value = <<>> THEN 404
    ELSE 200

\* scrape_leads from the await on (app.py lines 85-121): it runs without
\* another await, so nothing of another request comes in between; io_ok says
\* whether open() of the export file succeeds
Respond(j, io_ok) ==
    /\ delivered[j]
    /\ reply[j] = NoReply
    /\ IF StatusOf(result[j]) # 200
       THEN /\ reply' = [reply EXCEPT ![j] = HttpError(StatusOf(result[j]))]
            /\ UNCHANGED csvfile
       ELSE IF ~io_ok
            THEN /\ reply' = [reply EXCEPT ![j] = HttpError(500)]
                 /\ UNCHANGED csvfile
            ELSE \E out \in {SaveToCsv(result[j].value, "profiles.csv")} :
                    /\ csvfile' = out.file
                    /\ reply' = [reply EXCEPT ![j] = ScrapeResponse(out.ret, result[j].value)]
    /\ UNCHANGED << export_in, filepath >>
    /\ UNCHANGED << resolve_env, profile_env, profile_out, kwVars, phoneVars >>
    /\ UNCHANGED << scraper, pc, limit, service, on_disk, driver, quits, page, fetched,
                    profile_urls, search_ret, faulted, found, profiles, result, delivered,
                    login_env, discovered, last_new, visited >>

Next ==
    \E j \in OneJob :
        \/ Submit(j)
        \/ Start(j)
        \/ \E env \in JobResolveEnvs : Resolve(j, env)
        \/ \E ok \in BOOLEAN : Create(j, ok)
        \/ \E env \in LoginEnvs : DoLogin(j, env)
        \/ \E fault \in BOOLEAN, anchors \in SearchPages : FetchPage(j, fault, anchors)
        \/ \E env \in JobProfileEnvs : ScrapeOne(j, env)
        \/ Deliver(j)

Spec == Init /\ [][Next]_vars

(***************************************************************************)
(* Two requests in flight at once, each with its own scraper.              *)
(***************************************************************************)
InitConc ==
    /\ InitJobs(Jobs)
    /\ resolve_env = NoResolveEnv
    /\ profile_env = NoEnv
    /\ profile_out = NoOut
    /\ KeywordsIdle
    /\ ExportIdle
    /\ PhoneIdle

NextConc ==
    \E j \in Jobs :
        \/ Submit(j)
        \/ Start(j)
        \/ \E env \in PlainResolveEnvs : Resolve(j, env)
        \/ \E ok \in BOOLEAN : Create(j, ok)
        \/ \E env \in PlainLoginEnvs : DoLogin(j, env)
        \/ \E fault \in BOOLEAN, anchors \in PlainPages : FetchPage(j, fault, anchors)
        \/ \E env \in PlainProfileEnvs : ScrapeOne(j, env)
        \/ Deliver(j)

SpecConc == InitConc /\ [][NextConc]_vars

(***************************************************************************)
(* Two scrape_profiles calls on one scraper: both jobs go to the one       *)
(* executor that __init__ built (line 51).                                 *)
(***************************************************************************)
InitShared ==
    /\ scraper = [j \in Jobs |-> 1]
    /\ pc = [j \in Jobs |-> "idle"]
    /\ limit \in [Jobs -> 1..MaxLimit]
    /\ service = [j \in Jobs |-> NoService]
    /\ on_disk = [j \in Jobs |-> FALSE]
    /\ driver = [j \in Jobs |-> "none"]
    /\ quits = [j \in Jobs |-> 0]
    /\ page = [j \in Jobs |-> 0]
    /\ fetched = [j \in Jobs |-> 0]
    /\ profile_urls = [j \in Jobs |-> <<>>]
    /\ search_ret = [j \in Jobs |-> "none"]
    /\ faulted = [j \in Jobs |-> FALSE]
    /\ found = [j \in Jobs |-> <<>>]
    /\ profiles = [j \in Jobs |-> <<>>]
    /\ result = [j \in Jobs |-> NoResult]
    /\ delivered = [j \in Jobs |-> FALSE]
    /\ login_env = [j \in Jobs |-> NoLogin]
    /\ discovered = [j \in Jobs |-> 0]
    /\ last_new = [j \in Jobs |-> 0]
    /\ visited = [j \in Jobs |-> <<>>]
    /\ reply = [j \in Jobs |-> NoReply]
    /\ resolve_env = NoResolveEnv
    /\ profile_env = NoEnv
    /\ profile_out = NoOut
    /\ KeywordsIdle
    /\ ExportIdle
    /\ PhoneIdle

NextShared ==
    \E j \in Jobs :
        \/ Submit(j)
        \/ Start(j)
        \/ \E env \in PlainResolveEnvs : Resolve(j, env)
        \/ \E ok \in BOOLEAN : Create(j, ok)
        \/ \E env \in PlainLoginEnvs : DoLogin(j, env)
        \/ \E fault \in BOOLEAN, anchors \in PlainPages : FetchPage(j, fault, anchors)
        \/ \E env \in PlainProfileEnvs : ScrapeOne(j, env)
        \/ Deliver(j)

SpecShared == InitShared /\ [][NextShared]_vars

(***************************************************************************)
(* One job up to the creation of the browser, in every environment of the  *)
(* driver resolution.                                                      *)
(***************************************************************************)
InitResolve ==
    /\ InitJobs(OneJob)
    /\ resolve_env \in ResolveEnvs
    /\ profile_env = NoEnv
    /\ profile_out = NoOut
    /\ KeywordsIdle
    /\ ExportIdle
    /\ PhoneIdle

NextResolve ==
    \E j \in OneJob :
        \/ Submit(j)
        \/ Start(j)
        \/ Resolve(j, resolve_env)
        \/ \E ok \in BOOLEAN : Create(j, ok)
        \/ Deliver(j)

SpecResolve == InitResolve /\ [][NextResolve]_vars

(***************************************************************************)
(* _scrape_profile on its own, on every profile page.                      *)
(***************************************************************************)
InitExtract ==
    /\ InitJobs({})
    /\ resolve_env = NoResolveEnv
    /\ profile_env \in ProfileEnvs
    /\ profile_out = NoOut
    /\ KeywordsIdle
    /\ ExportIdle
    /\ PhoneIdle

Extract ==
    /\ profile_out = NoOut
    /\ profile_out' = ScrapeProfile(profile_env)
    /\ UNCHANGED << jobVars, resolve_env, profile_env, kwVars, csvVars, phoneVars >>

NextExtract == Extract

SpecExtract == InitExtract /\ [][NextExtract]_vars

(***************************************************************************)
(* The keyword extractor on its own: the local fallback on every prompt,   *)
(* and extract_keywords under every behaviour of the backing service.      *)
(***************************************************************************)
InitFallback ==
    /\ InitJobs({})
    /\ resolve_env = NoResolveEnv
    /\ profile_env = NoEnv
    /\ profile_out = NoOut
    /\ prompt_words \in PromptWordLists
    /\ response = NoResponse
    /\ keywords = NoKeywords
    /\ ExportIdle
    /\ PhoneIdle

CallFallback ==
    /\ keywords = NoKeywords
    /\ keywords' = KeywordsReturned(FallbackExtraction(PromptOf(prompt_words)))
    /\ UNCHANGED << jobVars, resolve_env, profile_env, profile_out, prompt_words, response, csvVars,
                    phoneVars >>

NextFallback == CallFallback

SpecFallback == InitFallback /\ [][NextFallback]_vars

InitKeywords ==
    /\ InitJobs({})
    /\ resolve_env = NoResolveEnv
    /\ profile_env = NoEnv
    /\ profile_out = NoOut
    /\ prompt_words \in PlainPromptWordLists
    /\ response = NoResponse
    /\ keywords = NoKeywords
    /\ ExportIdle
    /\ PhoneIdle

CallExtractKeywords ==
    /\ keywords = NoKeywords
    /\ \E r \in Responses :
          /\ response' = r
          /\ keywords' = ExtractKeywords(PromptOf(prompt_words), ServiceOfResponse(r))
    /\ UNCHANGED << jobVars, resolve_env, profile_env, profile_out, prompt_words, csvVars,
                    phoneVars >>

NextKeywords == CallExtractKeywords

SpecKeywords == InitKeywords /\ [][NextKeywords]_vars

(***************************************************************************)
(* save_to_csv on its own, on every list of records.                       *)
(***************************************************************************)
InitExport ==
    /\ InitJobs({})
    /\ resolve_env = NoResolveEnv
    /\ profile_env = NoEnv
    /\ profile_out = NoOut
    /\ KeywordsIdle
    /\ export_in \in CsvInputs
    /\ csvfile = NoFile
    /\ filepath = NoPath
    /\ PhoneIdle

CallSaveToCsv(filename) ==
    /\ filepath = NoPath
    /\ \E out \in {SaveToCsv(export_in, filename)} :
          /\ csvfile' = out.file
          /\ filepath' = out.ret
    /\ UNCHANGED << jobVars, resolve_env, profile_env, profile_out, kwVars, export_in, phoneVars >>

NextExport == \E filename \in Filenames : CallSaveToCsv(filename)

SpecExport == InitExport /\ [][NextExport]_vars

(***************************************************************************)
(* _search_profiles on its own: one job that has logged in, for every      *)
(* limit up to MaxSearchLimit.                                             *)
(***************************************************************************)
InitSearch ==
    /\ scraper = [j \in Jobs |-> j]
    /\ pc = [j \in Jobs |-> IF j \in OneJob THEN "search" ELSE "idle"]
    /\ limit \in {l \in [Jobs -> 1..MaxSearchLimit] : \A j \in Jobs \ OneJob : l[j] = 1}
    /\ service = [j \in Jobs |-> IF j \in OneJob THEN ServiceOf(AutoDetect) ELSE NoService]
    /\ on_disk = [j \in Jobs |-> FALSE]
    /\ driver = [j \in Jobs |-> IF j \in OneJob THEN "open" ELSE "none"]
    /\ quits = [j \in Jobs |-> 0]
    /\ page = [j \in Jobs |-> 0]
    /\ fetched = [j \in Jobs |-> 0]
    /\ profile_urls = [j \in Jobs |-> <<>>]
    /\ search_ret = [j \in Jobs |-> "none"]
    /\ faulted = [j \in Jobs |-> FALSE]
    /\ found = [j \in Jobs |-> <<>>]
    /\ profiles = [j \in Jobs |-> <<>>]
    /\ result = [j \in Jobs |-> NoResult]
    /\ delivered = [j \in Jobs |-> FALSE]
    /\ login_env = [j \in Jobs |-> IF j \in OneJob THEN [raiseAt |-> 0, url |-> FeedUrl]
                                                  ELSE NoLogin]
    /\ discovered = [j \in Jobs |-> 0]
    /\ last_new = [j \in Jobs |-> 0]
    /\ visited = [j \in Jobs |-> <<>>]
    /\ reply = [j \in Jobs |-> NoReply]
    /\ resolve_env = NoResolveEnv
    /\ profile_env = NoEnv
    /\ profile_out = NoOut
    /\ KeywordsIdle
    /\ ExportIdle
    /\ PhoneIdle

NextSearch ==
    \E j \in OneJob :
        \E fault \in BOOLEAN, anchors \in SearchPages : FetchPage(j, fault, anchors)

SpecSearch == InitSearch /\ [][NextSearch]_vars

(***************************************************************************)
(* The extraction loop on its own: one job to which search has returned    *)
(* two URLs, on every profile page of VisitEnvs.                           *)
(***************************************************************************)
InitVisit ==
    /\ scraper = [j \in Jobs |-> j]
    /\ pc = [j \in Jobs |-> IF j \in OneJob THEN "extract" ELSE "idle"]
    /\ limit = [j \in Jobs |-> IF j \in OneJob THEN Len(VisitUrls) ELSE 1]
    /\ service = [j \in Jobs |-> IF j \in OneJob THEN ServiceOf(AutoDetect) ELSE NoService]
    /\ on_disk = [j \in Jobs |-> FALSE]
    /\ driver = [j \in Jobs |-> IF j \in OneJob THEN "open" ELSE "none"]
    /\ quits = [j \in Jobs |-> 0]
    /\ page = [j \in Jobs |-> 0]
    /\ fetched = [j \in Jobs |-> IF j \in OneJob THEN 1 ELSE 0]
    /\ profile_urls = [j \in Jobs |-> <<>>]
    /\ search_ret = [j \in Jobs |-> IF j \in OneJob THEN "list" ELSE "none"]
    /\ faulted = [j \in Jobs |-> FALSE]
    /\ found = [j \in Jobs |-> IF j \in OneJob THEN VisitUrls ELSE <<>>]
    /\ profiles = [j \in Jobs |-> <<>>]
    /\ result = [j \in Jobs |-> NoResult]
    /\ delivered = [j \in Jobs |-> FALSE]
    /\ login_env = [j \in Jobs |-> IF j \in OneJob THEN [raiseAt |-> 0, url |-> FeedUrl]
                                                  ELSE NoLogin]
    /\ discovered = [j \in Jobs |-> IF j \in OneJob THEN Len(VisitUrls) ELSE 0]
    /\ last_new = [j \in Jobs |-> IF j \in OneJob THEN Len(VisitUrls) ELSE 0]
    /\ visited = [j \in Jobs |-> <<>>]
    /\ reply = [j \in Jobs |-> NoReply]
    /\ resolve_env = NoResolveEnv
    /\ profile_env = NoEnv
    /\ profile_out = NoOut
    /\ KeywordsIdle
    /\ ExportIdle
    /\ PhoneIdle

NextVisit ==
    \E j \in OneJob :
        \/ \E env \in VisitEnvs : ScrapeOne(j, env)
        \/ Deliver(j)

SpecVisit == InitVisit /\ [][NextVisit]_vars

(***************************************************************************)
(* One job whose steps all return or raise: the worker of its executor     *)
(* keeps running _scrape until it has left it.                             *)
(***************************************************************************)
\* webdriver-manager fails and the path-less Service() is built or not
LiveResolveEnvs ==
    {[cdm |-> TRUE, install |-> InstallRaises, windows |-> FALSE, fs |-> {},
      svcAuto |-> a, svcPath |-> TRUE] : a \in BOOLEAN}

LiveLoginEnvs == {[raiseAt |-> r, url |-> u] : r \in {0, 2}, u \in {FeedUrl, LoginUrl}}

\* a profile page that loads or not
LiveProfileEnvs ==
    {[nav |-> n, h1 |-> Found(TAlPadded), h1_heading |-> NotFound,
      body_break |-> Found(TDevAtCo), body_medium |-> NotFound,
      locations |-> <<FoundAll(<<TAl, TNews, TDubai>>), LookupRaises, LookupRaises,
                      FoundAll(<<>>), LookupRaises>>,
      exp_links |-> LookupRaises, exp_spans |-> LookupRaises] : n \in BOOLEAN}

NextLive ==
    \E j \in OneJob :
        \/ Submit(j)
        \/ Start(j)
        \/ \E env \in LiveResolveEnvs : Resolve(j, env)
        \/ \E ok \in BOOLEAN : Create(j, ok)
        \/ \E env \in LiveLoginEnvs : DoLogin(j, env)
        \/ \E fault \in BOOLEAN, anchors \in SearchPages : FetchPage(j, fault, anchors)
        \/ \E env \in LiveProfileEnvs : ScrapeOne(j, env)
        \/ Deliver(j)

SpecLive == Init /\ [][NextLive]_vars /\ WF_vars(NextLive)

(***************************************************************************)
(* Two requests to scrape_leads in flight at once, up to their answers.    *)
(***************************************************************************)
NextRest ==
    \E j \in Jobs :
        \/ Submit(j)
        \/ Start(j)
        \/ \E env \in PlainResolveEnvs : Resolve(j, env)
        \/ \E ok \in BOOLEAN : Create(j, ok)
        \/ \E env \in PlainLoginEnvs : DoLogin(j, env)
        \/ \E fault \in BOOLEAN, anchors \in PlainPages : FetchPage(j, fault, anchors)
        \/ \E env \in LiveProfileEnvs : ScrapeOne(j, env)
        \/ Deliver(j)
        \/ \E io_ok \in BOOLEAN : Respond(j, io_ok)

SpecRest == InitConc /\ [][NextRest]_vars

(***************************************************************************)
(* task2/phone_manager.py: the phone store. A number is the sequence of    *)
(* its characters.                                                         *)
(***************************************************************************)
Digits == {"0", "1", "2", "3", "4", "5", "6", "7", "8", "9"}

\* c.isdigit() on the characters the numbers hold
IsDigit(c) == c \in Digits

\* _normalize_phone_number: the digits and '+' of phone, in order
NormalizePhoneNumber(phone) == SelectSeq(phone, LAMBDA c : IsDigit(c) \/ c = "+")

\* "at least 10 digits" (line 28)
MinDigits == 10

\* faulty variant: the '+' signs are counted as digits
ValidateCountsPlus(phone) == Len(NormalizePhoneNumber(phone)) >= MinDigits

\* _validate_phone_number
ValidatePhoneNumber(phone) ==
    \E normalized \in {NormalizePhoneNumber(phone)} :
        Len(SelectSeq(normalized, IsDigit)) >= MinDigits

\* the form in which add_phone_numbers stores a number (lines 57, 67)
StoredForm(phone) == NormalizePhoneNumber(phone)

RECURSIVE AddLoop(_, _, _, _, _, _)
\* the loop of add_phone_numbers (lines 56-68) from input i on
AddLoop(store, inputs, i, added, invalid, duplicates) ==
    IF i > Len(inputs)
    THEN [store |-> store, added |-> added, invalid |-> invalid, duplicates |-> duplicates]
    ELSE LET normalized == StoredForm(inputs[i])
         IN  IF ~ValidatePhoneNumber(normalized)
             THEN AddLoop(store, inputs, i + 1, added, Append(invalid, inputs[i]), duplicates)
             ELSE IF normalized \in store
             THEN AddLoop(store, inputs, i + 1, added, invalid, Append(duplicates, inputs[i]))
             ELSE AddLoop(store \cup {normalized}, inputs, i + 1,
                          Append(added, normalized), invalid, duplicates)

\* the dict add_phone_numbers returns (lines 72-79)
AddReturn(loop) ==
    [op |-> "add", added |-> Len(loop.added), invalid |-> Len(loop.invalid),
     duplicates |-> Len(loop.duplicates), total |-> Cardinality(loop.store),
     invalid_numbers |-> loop.invalid, duplicate_numbers |-> loop.duplicates]

\* the dict remove_phone_number returns (lines 92-102)
RemoveReturn(success, store) ==
    [op |-> "remove", success |-> success, remaining |-> Cardinality(store)]

\* _save_numbers: the file gets the store, unless writing it raises, which
\* is logged and swallowed (lines 42-48)
SaveNumbers(store, save_ok) == storage_file' = IF save_ok THEN store ELSE storage_file

AddPhoneNumbers(inputs, save_ok) ==
    /\ \E loop \in {AddLoop(phone_numbers, inputs, 1, <<>>, <<>>, <<>>)} :
          /\ phone_numbers' = loop.store
          /\ SaveNumbers(loop.store, save_ok)
          /\ phone_ret' = AddReturn(loop)
    /\ phone_in' = inputs
    /\ UNCHANGED << jobVars, resolve_env, profile_env, profile_out, kwVars, csvVars >>

RemovePhoneNumber(phone_number, save_ok) ==
    /\ \E normalized \in {NormalizePhoneNumber(phone_number)} :
          IF normalized \in phone_numbers
          THEN /\ phone_numbers' = phone_numbers \ {normalized}
               /\ SaveNumbers(phone_numbers \ {normalized}, save_ok)
               /\ phone_ret' = RemoveReturn(TRUE, phone_numbers \ {normalized})
          ELSE /\ phone_ret' = RemoveReturn(FALSE, phone_numbers)
               /\ UNCHANGED << phone_numbers, storage_file >>
    /\ phone_in' = << phone_number >>
    /\ UNCHANGED << jobVars, resolve_env, profile_env, profile_out, kwVars, csvVars >>

ClearAllNumbers(save_ok) ==
    /\ phone_numbers' = {}
    /\ SaveNumbers({}, save_ok)
    /\ phone_ret' = NoReturn
    /\ phone_in' = <<>>
    /\ UNCHANGED << jobVars, resolve_env, profile_env, profile_out, kwVars, csvVars >>

\* the numbers callers hand in
MaxBatch == 2

PhoneA == << "1", "2", "3", "4", "5", "6", "7", "8", "9", "0" >>
PhoneADashed == << "1", "2", "3", "-", "4", "5", "6", "-", "7", "8", "9", "0" >>
PhoneAPlus == << "+", "1", "2", "3", "4", "5", "6", "7", "8", "9", "0" >>
PhoneShort == << "1", "2", "3", "4", "5" >>
PhoneNinePlus == << "+", "1", "2", "3", "4", "5", "6", "7", "8", "9" >>

PhoneInputs == {PhoneA, PhoneADashed, PhoneAPlus, PhoneShort, PhoneNinePlus}

PhoneBatches == SeqUpTo(PhoneInputs, MaxBatch)

InitPhone ==
    /\ InitJobs({})
    /\ resolve_env = NoResolveEnv
    /\ profile_env = NoEnv
    /\ profile_out = NoOut
    /\ KeywordsIdle
    /\ ExportIdle
    /\ PhoneIdle

NextPhone ==
    \E save_ok \in BOOLEAN :
        \/ \E inputs \in PhoneBatches : AddPhoneNumbers(inputs, save_ok)
        \/ \E phone_number \in PhoneInputs : RemovePhoneNumber(phone_number, save_ok)
        \/ ClearAllNumbers(save_ok)

SpecPhone == InitPhone /\ [][NextPhone]_vars

(***************************************************************************)
(* Properties.                                                             *)
(***************************************************************************)
Fields == {"name", "title", "company", "location"}

\* canonical form of a profile URL: the query string stripped
Canonical(u) == [u EXCEPT !.query = NoQuery]

\* C1 as stated: every job that ended, DONE or FAILED at whatever point, has
\* made exactly one driver.quit() call.
C1_ExactlyOneTeardown ==
    \A j \in Jobs : pc[j] \in Terminal => quits[j] = 1

\* C1 amended: a job that ended has made exactly one driver.quit() call when
\* its browser was created (DONE, or FAILED at login or later) and none when it
\* failed at driver resolution or at browser creation; no quit is made before
\* the job ends.
C1_TeardownOnceIfCreated ==
    \A j \in Jobs :
        /\ pc[j] \notin Terminal => quits[j] = 0
        /\ pc[j] \in Terminal =>
              quits[j] = IF result[j].error \in {"driver_not_found", "browser_not_created"}
                         THEN 0 ELSE 1

C1_Witness ==
    \E j \in Jobs : pc[j] = "failed" /\ result[j].error = "login_failed" /\ quits[j] = 1

\* C2: the list search returns and the list of records a job returns both hold
\* at most limit entries, however many URLs the pages exposed.
C2_AtMostLimit ==
    \A j \in Jobs :
        /\ search_ret[j] = "list" => Len(found[j]) <= limit[j]
        /\ pc[j] = "done" => Len(result[j].value) <= limit[j]

C2_Witness ==
    \E j \in Jobs :
        pc[j] = "done" /\ discovered[j] > limit[j] /\ Len(result[j].value) = limit[j]

\* C3 as stated: with two jobs in flight, each with its own scraper, two
\* browser sessions are never open at the same moment.
C3_NoTwoSessionsOpen ==
    \A j, k \in Jobs : j # k => ~(driver[j] = "open" /\ driver[k] = "open")

\* C3 amended: each job holds at most one browser session, open only between
\* its own browser creation and its own teardown and closed when the job has
\* ended; the sessions of two jobs with different scrapers may overlap.
C3_OneSessionPerJob ==
    \A j \in Jobs :
        /\ driver[j] = "open" => pc[j] \in {"login", "search", "extract"}
        /\ driver[j] = "closed" => pc[j] \in Terminal /\ quits[j] = 1
        /\ quits[j] <= 1

C3_Witness ==
    /\ scraper[1] # scraper[2]
    /\ driver[1] = "open" /\ pc[1] = "search"
    /\ driver[2] = "open" /\ pc[2] = "extract"

\* C4: when login does not succeed (the URL after the settle delay is neither
\* the landing page nor a profile page, or a login step raises), the job ends
\* FAILED with the login failure, no search page was requested, no profile was
\* extracted, and the session is closed, so before the caller gets the error.
C4_LoginFailureIsFatal ==
    \A j \in Jobs :
        (/\ login_env[j] # NoLogin
         /\ \/ login_env[j].raiseAt # 0
            \/ login_env[j].url \in {LoginUrl, CheckpointUrl})
        => /\ pc[j] = "failed"
           /\ result[j] = RaiseOf("login_failed")
           /\ fetched[j] = 0
           /\ search_ret[j] = "none"
           /\ profiles[j] = <<>>
           /\ driver[j] = "closed"
           /\ quits[j] = 1

C4_Witness ==
    \E j \in Jobs :
        /\ login_env[j].raiseAt = 0
        /\ login_env[j].url = CheckpointUrl
        /\ pc[j] = "failed"
        /\ delivered[j]

\* C5: when search returns no URL, the job ends DONE with the empty list, never
\* FAILED, and no profile is extracted.
C5_EmptySearchIsDone ==
    \A j \in Jobs :
        (search_ret[j] = "list" /\ found[j] = <<>>)
        => /\ pc[j] = "done"
           /\ result[j] = ReturnOf(<<>>)
           /\ profiles[j] = <<>>

C5_Witness ==
    \E j \in Jobs :
        /\ search_ret[j] = "list" /\ found[j] = <<>> /\ ~faulted[j]
        /\ login_env[j].url = FeedUrl
        /\ pc[j] = "done" /\ delivered[j]

\* C6: the list search returns holds no two entries with the same canonical
\* form (query string stripped).
C6_NoDuplicateCanonical ==
    \A j \in Jobs :
        search_ret[j] = "list" =>
            \A a, b \in 1..Len(found[j]) :
                Canonical(found[j][a]) = Canonical(found[j][b]) => a = b

\* C7: every field of a record _scrape_profile returns is a non-empty string
\* (the extracted text or "N/A"), also when the located element has empty text.
C7_NoEmptyField ==
    profile_out.tag = "ret" => \A f \in Fields : profile_out.rec[f] # <<>>

C7_Witness ==
    /\ profile_out.tag = "ret"
    /\ profile_env.nav
    /\ profile_env.h1 = Found(TEmpty)
    /\ profile_out.rec.name = NA

\* C8: _scrape_profile never raises; whatever step fails, it returns a record
\* with the four fields.
C8_ExtractNeverRaises ==
    profile_out # NoOut =>
        /\ profile_out.tag = "ret"
        /\ DOMAIN profile_out.rec = Fields

C8_Witness ==
    /\ ~profile_env.nav
    /\ profile_out = Returned(AllNA)

\* C9 as stated: _get_chrome_service never returns a service without a located
\* executable: when none can be located it fails and the job ends FAILED.
C9_ServiceHasLocatedDriver ==
    \A j \in Jobs : service[j].tag = "service" => on_disk[j]

\* C9 amended: a service that names no file on disk is the path-less
\* auto-detection service or, on Windows, the bare name chromedriver.exe;
\* _get_chrome_service fails only when the path-less service cannot be built,
\* and then the job ends FAILED with the driver-not-found error, no browser
\* created and no teardown.
C9_UnlocatedDriverFallsBack ==
    \A j \in Jobs :
        /\ (service[j].tag = "service" /\ ~on_disk[j]) =>
              \/ service[j].path = AutoDetect
              \/ service[j].path = BareName /\ resolve_env.windows
        /\ service[j].tag = "raise" =>
              /\ ~resolve_env.svcAuto
              /\ pc[j] = "failed"
              /\ result[j] = RaiseOf("driver_not_found")
              /\ driver[j] = "none"
              /\ quits[j] = 0

C9_Witness ==
    \E j \in Jobs :
        /\ resolve_env.fs = {}
        /\ resolve_env.install = InstallRaises
        /\ service[j].tag = "raise"
        /\ pc[j] = "failed"

\* C10: _search_profiles never raises: a fault while paginating is answered
\* with a list, and it answers the empty list when no page exposed a URL.
C10_SearchNeverRaises ==
    \A j \in Jobs :
        /\ search_ret[j] # "raise"
        /\ result[j].error # "search_error"
        /\ faulted[j] => search_ret[j] = "list"
        /\ (search_ret[j] = "list" /\ discovered[j] = 0) => found[j] = <<>>

C10_Witness ==
    \E j \in Jobs : faulted[j] /\ fetched[j] = 2 /\ search_ret[j] = "list" /\ pc[j] = "done"

\* the phases of a job in their order
PhaseOrder == << "idle", "queued", "resolve", "create", "login", "search", "extract", "done" >>

PhaseIndex(p) == CHOOSE i \in 1..Len(PhaseOrder) : PhaseOrder[i] = p

\* a step of job j from phase p to phase q follows the state machine: the next
\* phase, DONE straight from search (no URL), or FAILED from a running phase
PhaseStep(p, q) ==
    \/ q = p
    \/ p \in Running /\ q = "failed"
    \/ p = "search" /\ q = "done"
    \/ p # "failed" /\ q # "failed" /\ PhaseIndex(q) = PhaseIndex(p) + 1

\* C11: the phases of a job occur only in the order resolve, create and login,
\* search, extract, done: login is attempted only with a resolved service and
\* a created browser, a search page is requested only after a login that
\* succeeded, a profile is extracted only after search returned its list, and
\* once the job has its outcome (DONE or FAILED) none of its phases runs again.
C11_PhasesInOrder ==
    /\ [](\A j \in Jobs :
            /\ login_env[j] # NoLogin => service[j].tag = "service" /\ driver[j] # "none"
            /\ fetched[j] > 0 =>
                  /\ login_env[j].raiseAt = 0
                  /\ login_env[j].url \in {FeedUrl, OwnProfileUrl}
            /\ profiles[j] # <<>> => search_ret[j] = "list" /\ found[j] # <<>>
            /\ result[j] # NoResult <=> pc[j] \in Terminal)
    /\ [][\A j \in Jobs :
            /\ PhaseStep(pc[j], pc'[j])
            /\ result[j] # NoResult =>
                  /\ pc'[j] = pc[j] /\ result'[j] = result[j]
                  /\ service'[j] = service[j] /\ driver'[j] = driver[j]
                  /\ quits'[j] = quits[j] /\ login_env'[j] = login_env[j]
                  /\ fetched'[j] = fetched[j] /\ profiles'[j] = profiles[j]]_vars

C11_Witness ==
    \E j \in Jobs :
        /\ pc[j] = "done" /\ delivered[j]
        /\ login_env[j].url = OwnProfileUrl
        /\ fetched[j] = 2
        /\ Len(profiles[j]) = 2

\* the tokens among the pieces of a prompt: the pieces that are not blank
TokensOf(words) == SelectSeq(words, LAMBDA w : w \notin {WBlank, WTab})

\* what the local fallback is to answer for a prompt given by its pieces
ExpectedKeywords(words) ==
    LET tokens == TokensOf(words)
        lowered == [i \in 1..Len(tokens) |-> Lower(tokens[i])]
        kept == SelectSeq(lowered, LAMBDA w : w \notin StopWords /\ Len(w) >= 3)
    IN  IF kept = <<>> THEN DefaultKeywords
        ELSE SubSeq(kept, 1, IF Len(kept) < 7 THEN Len(kept) ELSE 7)

\* C12: _fallback_extraction returns the whitespace-split tokens of the
\* lowercased prompt in their order, without the stop words and the tokens of
\* length <= 2, cut to the first 7, and ["business", "professional"] when none
\* is left; so 1 to 7 tokens without upper-case letters, and
\* ["food", "business", "dubai"] for the example prompt.
C12_FallbackKeywords ==
    keywords.tag = "ret" =>
        /\ keywords.value = ExpectedKeywords(prompt_words)
        /\ Len(keywords.value) \in 1..7
        /\ \A i \in 1..Len(keywords.value) :
              \A k \in 1..Len(keywords.value[i]) :
                  keywords.value[i][k] \notin Range(UpperLetters)
        /\ prompt_words = ExampleWords =>
              keywords.value = << <<"f", "o", "o", "d">>, <<"b", "u", "s", "i", "n", "e", "s", "s">>,
                                  <<"d", "u", "b", "a", "i">> >>

C12_Witness ==
    /\ prompt_words = SevenWords \o <<WThe, WFood, WAb>>
    /\ keywords.tag = "ret"
    /\ Len(keywords.value) = 7
    /\ keywords.value[7] = <<"b", "a", "n", "k", "i", "n", "g">>

\* C13: extract_keywords never raises and returns 1 to 7 phrases whatever the
\* backing service does; when the call or the reading of the response raises,
\* or the response holds no phrase, it returns what the local fallback returns.
C13_ExtractKeywordsDegrades ==
    keywords # NoKeywords =>
        /\ keywords.tag = "ret"
        /\ Len(keywords.value) \in 1..7
        /\ (\/ response.tag # "text"
            \/ \A i \in 1..Len(response.parts) : response.parts[i] \in {PBlank, PSpace})
           => keywords.value = ExpectedKeywords(prompt_words)

C13_Witness ==
    /\ response.tag = "raise"
    /\ prompt_words = <<WThe, WAb>>
    /\ keywords = KeywordsReturned(DefaultKeywords)

\* the position of the quote that closes the quoted cell opened at position i
ClosingQuote(s, i) ==
    LET ends == {j \in (i + 1)..Len(s) :
                    /\ s[j] = "\""
                    /\ (j = Len(s) \/ s[j + 1] # "\"")
                    /\ Cardinality({k \in (i + 1)..(j - 1) : s[k] = "\""}) % 2 = 0}
    IN  IF ends = {} THEN Len(s) + 1 ELSE CHOOSE j \in ends : \A k \in ends : j <= k

RECURSIVE Unquote(_)
\* the text of a quoted cell: a doubled quote stands for one quote
Unquote(text) ==
    IF text = <<>> THEN <<>>
    ELSE IF Len(text) >= 2 /\ text[1] = "\"" /\ text[2] = "\""
         THEN <<"\"">> \o Unquote(SubSeq(text, 3, Len(text)))
         ELSE <<text[1]>> \o Unquote(Tail(text))

RECURSIVE ReadCells(_, _, _, _)
\* the rows a CSV reader gets from the text s, read from the cell that starts
\* at position i; row holds the cells of the open row
ReadCells(s, i, row, rows) ==
    IF i > Len(s) THEN (IF row = <<>> THEN rows ELSE Append(rows, row))
    ELSE LET quoted == s[i] = "\""
             close == ClosingQuote(s, i)
             stops == {j \in i..Len(s) : s[j] \in {",", "\r", "\n"}}
             end == IF quoted THEN close + 1
                    ELSE IF stops = {} THEN Len(s) + 1
                    ELSE CHOOSE j \in stops : \A k \in stops : j <= k
             cell == IF quoted THEN Unquote(SubSeq(s, i + 1, close - 1))
                     ELSE SubSeq(s, i, end - 1)
         IN  IF end > Len(s) THEN Append(rows, Append(row, cell))
             ELSE IF s[end] = "," THEN ReadCells(s, end + 1, Append(row, cell), rows)
             ELSE IF s[end] = "\r" /\ end < Len(s) /\ s[end + 1] = "\n"
                  THEN ReadCells(s, end + 2, <<>>, Append(rows, Append(row, cell)))
             ELSE ReadCells(s, end + 1, <<>>, Append(rows, Append(row, cell)))

ReadCsv(s) == ReadCells(s, 1, <<>>, <<>>)

\* C14: the file save_to_csv writes reads back as the header row
\* name,title,company,location followed by one row per record, in the order
\* of the records, each row holding the four fields of its record unchanged
\* ("N/A" included); the file lies at the path save_to_csv returns.
C14_CsvHoldsRecords ==
    filepath # NoPath =>
        LET rows == ReadCsv(csvfile.content)
        IN  /\ csvfile.path = filepath
            /\ Len(rows) = Len(export_in) + 1
            /\ rows[1] = << <<"n", "a", "m", "e">>, <<"t", "i", "t", "l", "e">>,
                            <<"c", "o", "m", "p", "a", "n", "y">>,
                            <<"l", "o", "c", "a", "t", "i", "o", "n">> >>
            /\ \A i \in 1..Len(export_in) :
                  rows[i + 1] = << export_in[i].name, export_in[i].title,
                                   export_in[i].company, export_in[i].location >>

C14_Witness ==
    /\ filepath = <<ScriptDir, "profiles.csv">>
    /\ Len(export_in) = 2
    /\ export_in[1] = [name |-> NA, title |-> TQuoted, company |-> TLines, location |-> TTown]
    /\ export_in[2] = [name |-> TAl, title |-> TDev, company |-> NA, location |-> NA]
    /\ csvfile.content # <<>>

\* C15: every job handed to the executor eventually reaches DONE or FAILED
\* when each of its steps returns or raises.
C15_JobTerminates ==
    \A j \in OneJob : (pc[j] = "queued") ~> (pc[j] \in Terminal)

C15_Witness ==
    \E j \in OneJob :
        /\ pc[j] = "done"
        /\ fetched[j] = 2 /\ last_new[j] = 1
        /\ Len(visited[j]) = 2
        /\ result[j].value[1] = AllNA

\* limit // 10 + 2 and the rounded-up count of the text, without division
FloorPages(lim) == CHOOSE f \in 2..(lim + 2) : 10 * (f - 2) <= lim /\ lim < 10 * (f - 1)
CeilPages(lim) == CHOOSE f \in 2..(lim + 3) : 10 * (f - 3) < lim /\ lim <= 10 * (f - 2)

\* the limits on which the two page counts are compared
LimitsCompared == 1..30

\* search ended on its own account: no step raised, the last page brought
\* new URLs and the limit was not reached
RanOutOfPages(j) ==
    /\ search_ret[j] = "list"
    /\ ~faulted[j]
    /\ last_new[j] > 0
    /\ discovered[j] < limit[j]

\* C17 as stated: search requests at most ceil(limit / 10) + 2 pages, and
\* requests that many when every page brings new URLs and the limit is not
\* reached.
C17_CeilPlusTwoPages ==
    \A j \in Jobs :
        /\ fetched[j] <= CeilPages(limit[j])
        /\ RanOutOfPages(j) => fetched[j] = CeilPages(limit[j])

\* C17 amended: search requests at most max_pages = floor(limit / 10) + 2
\* pages, one fewer than ceil(limit / 10) + 2 unless limit is a multiple of
\* 10, and requests that many when every page brings new URLs and the limit
\* is not reached.
C17_FloorPlusTwoPages ==
    /\ \A j \in Jobs :
          /\ fetched[j] <= FloorPages(limit[j])
          /\ RanOutOfPages(j) => fetched[j] = FloorPages(limit[j])
    /\ \A lim \in LimitsCompared :
          /\ MaxPages(lim) = FloorPages(lim)
          /\ MaxPages(lim) = IF lim % 10 = 0 THEN CeilPages(lim) ELSE CeilPages(lim) - 1

C17_Witness ==
    \E j \in Jobs : limit[j] = 3 /\ RanOutOfPages(j) /\ fetched[j] = 2 /\ discovered[j] = 2

\* C18: a further search page is requested only when the page before brought
\* at least one new URL, fewer than limit URLs are held and fewer than
\* max_pages pages were requested; and search goes on until one of the three
\* fails (or a step raises).
C18_PaginationStops ==
    /\ [](\A j \in Jobs :
            (search_ret[j] = "list" /\ ~faulted[j]) =>
                \/ last_new[j] = 0
                \/ discovered[j] >= limit[j]
                \/ fetched[j] = FloorPages(limit[j]))
    /\ [][\A j \in Jobs :
            (fetched'[j] # fetched[j] /\ fetched[j] > 0) =>
                /\ last_new[j] > 0
                /\ Len(profile_urls[j]) < limit[j]
                /\ fetched[j] < FloorPages(limit[j])]_vars

C18_Witness ==
    \E j \in Jobs :
        /\ limit[j] = 3
        /\ search_ret[j] = "list" /\ ~faulted[j]
        /\ fetched[j] = 1
        /\ last_new[j] = 0

\* C19: a job that ends DONE after search returned URLs has visited exactly
\* those URLs, in their order, and returns one record per URL, the records in
\* the order of the visits; an extraction that failed gives its all-"N/A"
\* record and neither ends nor shortens the batch.
C19_OneRecordPerUrl ==
    /\ [](\A j \in Jobs :
            /\ result[j].error # "extract_error"
            /\ Len(profiles[j]) = Len(visited[j])
            /\ (pc[j] = "done" /\ found[j] # <<>>) =>
                  /\ visited[j] = found[j]
                  /\ result[j].value = profiles[j]
                  /\ Len(result[j].value) = Len(found[j]))
    /\ [][\A j \in Jobs :
            profiles'[j] # profiles[j] =>
                /\ SubSeq(profiles'[j], 1, Len(profiles[j])) = profiles[j]
                /\ Len(profiles'[j]) = Len(profiles[j]) + 1
                /\ visited'[j] = Append(visited[j], found[j][Len(profiles[j]) + 1])]_vars

C19_Witness ==
    \E j \in Jobs :
        /\ pc[j] = "done"
        /\ Len(found[j]) = 2
        /\ result[j].value[1] = AllNA
        /\ result[j].value[2] # AllNA

\* C20: every URL search returns is absolute and carries no query string.
C20_ReturnedUrlsCanonical ==
    \A j \in Jobs :
        search_ret[j] = "list" =>
            \A i \in 1..Len(found[j]) :
                found[j][i].origin # NoOrigin /\ found[j][i].query = NoQuery

\* the plausibility predicate: the extension the host platform wants, and a
\* file name that is not the notices file
Plausible(p, windows) == (p.exe <=> windows) /\ p.stem # NoticesStem

\* C16: a driver path handed to the browser service exists on disk and is
\* plausible for the host platform; an implausible candidate is never used.
C16_HandedPathIsPlausible ==
    \A j \in Jobs :
        (service[j].tag = "service" /\ service[j].path # AutoDetect) =>
            /\ on_disk[j]
            /\ Plausible(service[j].path, resolve_env.windows)

\* C21: the list search returns is the discovery order of its URLs cut to the
\* first limit of them, so that the same pages and limit give the same list.
C21_FirstSeenOrder ==
    \A j \in Jobs :
        (search_ret[j] = "list" /\ ~faulted[j]) =>
            found[j] = Take(profile_urls[j], limit[j])

\* the candidates of a profile page: the stripped texts of the elements the
\* location locators found, in locator order then element order
RECURSIVE Candidates(_, _)
Candidates(selectors, i) ==
    IF i > Len(selectors) THEN <<>>
    ELSE (IF selectors[i].ok
          THEN [k \in 1..Len(selectors[i].texts) |-> Strip(selectors[i].texts[k])]
          ELSE <<>>) \o Candidates(selectors, i + 1)

HasComma(text) == \E i \in 1..Len(text) : text[i] = ","

HasGazetteerWord(text) == \E w \in 1..Len(Gazetteer) : Contains(Lower(text), Gazetteer[w])

\* a candidate is acceptable for lengths lo..hi, given the record's name and title
Acceptable(text, lo, hi, rec) ==
    /\ Len(text) \in lo..hi
    /\ text # rec.name
    /\ text # rec.title
    /\ HasComma(text) \/ HasGazetteerWord(text)

\* the location is the first acceptable candidate, or "N/A" when there is none
FirstAcceptable(lo, hi) ==
    (profile_out.tag = "ret" /\ profile_env.nav) =>
        LET cands == Candidates(profile_env.locations, 1)
            ok == {i \in 1..Len(cands) : Acceptable(cands[i], lo, hi, profile_out.rec)}
        IN  IF ok = {} THEN profile_out.rec.location = NA
            ELSE profile_out.rec.location = cands[CHOOSE i \in ok : \A k \in ok : i <= k]

AfterLastAt(title) ==
    LET occ == Occurrences(title, AtWord)
        last == CHOOSE i \in occ : \A k \in occ : i >= k
    IN  Strip(SubSeq(title, last + Len(AtWord), Len(title)))

\* the company the experience section names: its first linked company text
\* or, when there is no linked one, its first labeled company text
ExperienceCompany(env) ==
    IF env.exp_links.ok /\ env.exp_links.texts # <<>> THEN OrNA(Strip(env.exp_links.texts[1]))
    ELSE IF env.exp_spans.ok /\ env.exp_spans.texts # <<>> THEN OrNA(Strip(env.exp_spans.texts[1]))
    ELSE NA

\* C23: the company is the text after the last " at " of the title when the
\* title holds one; otherwise the first linked company text of the experience
\* section, or without a linked one its first labeled company text; it is
\* "N/A" only when none of these exists.
C23_CompanyFallbackChain ==
    (profile_out.tag = "ret" /\ profile_env.nav) =>
        profile_out.rec.company =
            IF Contains(profile_out.rec.title, AtWord)
            THEN AfterLastAt(profile_out.rec.title)
            ELSE ExperienceCompany(profile_env)

\* the profile page env exposes no acceptable location: no candidate passes
\* the test, be it that the lookups found none or that they raised
NoAcceptableLocation(env, rec) ==
    \E cands \in {Candidates(env.locations, 1)} :
        \A i \in 1..Len(cands) :
            ~Acceptable(cands[i], MinLocationLen + 1, MaxLocationLen - 1, rec)

\* the record job j has just appended
LastRecord(j) == profiles'[j][Len(profiles'[j])]

\* C24: when a profile page that loaded exposes no acceptable location (or
\* its location lookups raise), the appended record has location "N/A" and
\* the name, title and company their own fallback chains give, the job does
\* not fail on it, and it goes on with the next URL when one is left.
C24_MissingLocationLeavesOthers ==
    [][\A j \in Jobs :
         (/\ profiles'[j] # profiles[j]
          /\ profile_env'.nav
          /\ NoAcceptableLocation(profile_env', LastRecord(j))) =>
             /\ LastRecord(j).location = NA
             /\ LastRecord(j).name = OrNA(ExtractName(profile_env'))
             /\ LastRecord(j).title = OrNA(ExtractTitle(profile_env'))
             /\ LastRecord(j).company =
                   OrNA(CompanyFromExperience(profile_env', CompanyFromTitle(ExtractTitle(profile_env'))))
             /\ result'[j].tag # "raise"
             /\ Len(profiles'[j]) < Len(found[j]) => pc'[j] = "extract"]_vars

\* a first page whose location lookups raise and a second page with a
\* location: the first record keeps name, title and company
C24_Witness ==
    \E j \in Jobs :
        /\ pc[j] = "done"
        /\ Len(profiles[j]) = 2
        /\ profiles[j][1] = [name |-> TAl, title |-> TDevAtCo, company |-> TCo, location |-> NA]
        /\ profiles[j][2].location = TLong(MaxLocationLen - 1)

\* C25: two jobs of one scraper are serialized by its single worker: while
\* one of them holds a browser the other is not between its start and its
\* teardown, and a caller has its result only once its own job has left
\* _scrape, teardown included.
C25_SharedScraperSerializes ==
    /\ \A j, k \in Jobs :
          (j # k /\ scraper[j] = scraper[k] /\ driver[j] = "open") =>
              /\ pc[k] \notin Running
              /\ driver[k] # "open"
    /\ \A j \in Jobs :
          delivered[j] =>
              /\ pc[j] \in Terminal
              /\ result[j] # NoResult
              /\ driver[j] # "open"
              /\ quits[j] = QuitCalls(driver[j])

\* the second call waits in the executor's queue while the first holds its
\* browser; it has its own browser later, after the first was torn down
C25_Witness ==
    \E j, k \in Jobs :
        /\ j # k /\ scraper[j] = scraper[k]
        /\ driver[j] = "closed" /\ quits[j] = 1 /\ delivered[j]
        /\ driver[k] = "open" /\ pc[k] = "extract"

\* C26: driver.quit is called in a job if and only if its browser was
\* created, and then once, when the job leaves _scrape: a job that failed at
\* driver resolution or at browser creation has no browser, made no quit call
\* and handed its error to the caller.
C26_QuitIffCreated ==
    \A j \in Jobs :
        /\ quits[j] \in {0, 1}
        /\ quits[j] = 1 <=> driver[j] = "closed"
        /\ driver[j] = "open" <=> pc[j] \in {"login", "search", "extract"}
        /\ (pc[j] \in Terminal /\ result[j].error \in {"driver_not_found", "browser_not_created"}) =>
              /\ driver[j] = "none"
              /\ quits[j] = 0
              /\ result[j].tag = "raise"
              /\ pc[j] = "failed"

\* the browser could not be created: the job failed without a teardown call
C26_Witness ==
    \E j \in Jobs :
        /\ pc[j] = "failed" /\ delivered[j]
        /\ result[j] = RaiseOf("browser_not_created")
        /\ service[j].tag = "service"
        /\ quits[j] = 0

\* C27: when a step of the pagination raises, on whatever page, search
\* returns the empty list and the URLs of the earlier pages are dropped: the
\* job ends DONE with the empty list and visits no profile.
C27_FaultDiscardsCollected ==
    \A j \in Jobs :
        faulted[j] =>
            /\ search_ret[j] = "list"
            /\ found[j] = <<>>
            /\ visited[j] = <<>>
            /\ profiles[j] = <<>>
            /\ pc[j] = "done"
            /\ result[j] = ReturnOf(<<>>)

\* the second page raised after the first had given a URL
C27_Witness ==
    \E j \in Jobs :
        /\ faulted[j] /\ fetched[j] = 2
        /\ discovered[j] >= 1 /\ profile_urls[j] # <<>>
        /\ pc[j] = "done" /\ result[j] = ReturnOf(<<>>)

\* C28: a request whose job ended DONE with the empty list is answered 404
\* and writes no file; the file is written and the 200 answer given only for
\* a job that returned at least one record; a job that failed is answered 500.
C28_RestAnswers ==
    /\ [](\A j \in Jobs :
            reply[j] # NoReply =>
                /\ delivered[j] /\ pc[j] \in Terminal
                /\ reply[j].status \in {200, 404, 500}
                /\ (pc[j] = "done" /\ result[j].value = <<>>) => reply[j].status = 404
                /\ pc[j] = "failed" => reply[j].status = 500
                /\ reply[j].status = 200 =>
                      /\ pc[j] = "done"
                      /\ result[j].value # <<>>
                      /\ reply[j].profiles = result[j].value
                      /\ reply[j].csv_path = PathJoin(ScriptDir, "profiles.csv"))
    /\ [][csvfile' # csvfile =>
             \E j \in Jobs :
                 /\ reply[j] = NoReply
                 /\ reply'[j].status = 200
                 /\ Len(result[j].value) >= 1]_vars

\* one request answered 404 and no file written, the other's job failed and
\* it was answered 500
C28_Witness ==
    \E j, k \in Jobs :
        /\ pc[j] = "done" /\ result[j].value = <<>> /\ reply[j].status = 404
        /\ csvfile = NoFile
        /\ pc[k] = "failed" /\ reply[k].status = 500

\* the rows of the export of a list of records, header first
ExportRows(records) ==
    << << <<"n", "a", "m", "e">>, <<"t", "i", "t", "l", "e">>,
          <<"c", "o", "m", "p", "a", "n", "y">>,
          <<"l", "o", "c", "a", "t", "i", "o", "n">> >> >>
    \o [i \in 1..Len(records) |-> << records[i].name, records[i].title,
                                     records[i].company, records[i].location >>]

\* C29: the file a successful answer names by csv_path holds the rows of that
\* request's own profiles, whatever another request does.
C29_ExportIsOwn ==
    \A j \in Jobs :
        reply[j].status = 200 =>
            /\ csvfile.path = reply[j].csv_path
            /\ ReadCsv(csvfile.content) = ExportRows(reply[j].profiles)

\* two spellings of one number: the same digits and '+' signs in the same order
SameNumber(p, q) ==
    SelectSeq(p, LAMBDA c : c \in Digits \cup {"+"}) = SelectSeq(q, LAMBDA c : c \in Digits \cup {"+"})

\* C30: from the empty store on, whatever calls are made, every stored number
\* holds only digits and '+' and at least 10 digits, no two stored entries
\* are the same number, and an add call reports added + invalid + duplicates
\* equal to the number of its inputs and total equal to the size of the store.
C30_PhoneStoreInvariant ==
    /\ \A p \in phone_numbers :
          /\ \A i \in 1..Len(p) : p[i] \in Digits \cup {"+"}
          /\ Cardinality({i \in 1..Len(p) : p[i] \in Digits}) >= MinDigits
    /\ \A p, q \in phone_numbers : SameNumber(p, q) => p = q
    /\ phone_ret.op = "add" =>
          /\ phone_ret.added + phone_ret.invalid + phone_ret.duplicates = Len(phone_in)
          /\ phone_ret.total = Cardinality(phone_numbers)
          /\ Len(phone_ret.invalid_numbers) = phone_ret.invalid
          /\ Len(phone_ret.duplicate_numbers) = phone_ret.duplicates

\* one call was given the same number in two spellings: one added, one
\* duplicate, and the store holds it once, next to a number stored before
C30_Witness ==
    /\ phone_in = << PhoneADashed, PhoneA >>
    /\ phone_ret.op = "add"
    /\ phone_ret.added = 1 /\ phone_ret.duplicates = 1 /\ phone_ret.total = 2
    /\ phone_numbers = {PhoneA, PhoneAPlus}

====
